---- MODULE Spec2Model ----
(***************************************************************************)
(* One XMPP connection of python-xmpp-server: the per-connection State     *)
(* (event map, stanza table, slot map, re-entrant lock, job queue) of      *)
(* xmpp/state.py driven by the ServerCore of xmpp/core.py.                 *)
(*                                                                         *)
(* Python runs the connection on one thread, so the model is a small-step  *)
(* interpreter: `stack' is the Python call stack of the connection (the    *)
(* last frame is the one executing), `exc' is the exception that is        *)
(* propagating, and every action is one step of the method on top of the   *)
(* stack.  Plugin code (stanza handlers, event listeners, iq callbacks,    *)
(* plugin initialisers) is an open frame that may call any operation of    *)
(* the plugin API, in any order, until it returns or raises.               *)
(***************************************************************************)
EXTENDS Integers, Sequences, FiniteSets, TLC

\* ------------------------------------------------------------ bounds
MaxOps == 3        \* plugin API calls made by plugin code in one behaviour
MaxInputs == 3     \* tokens (stream open, stanza, stream close, bad XML) received
MaxWork == 5       \* plugin API calls and tokens received, taken together
MaxFail == 1       \* socket errors reported by send()
MaxIq == 1         \* iq requests sent with Core.iq
MaxStall == 1      \* writes that find the socket unable to take the bytes
MaxSessions == 2   \* sessions that share one Resources table
MaxWrites == 3     \* calls of ReadStream.write on the stream observed byte by byte
MaxData == 2       \* bytes given to one such call
MaxResets == 2     \* calls of Parser.reset made by handlers while tokens are parsed
MaxPlugins == 3    \* plugins an application declares

\* ------------------------------------------------------------ vocabulary
Handlers == {1, 2}                \* callables of the plugin (methods)
Data == {"x", "s"}                \* payloads plugin code writes: an Element, a string
Events == {"ReceivedOpenStream", "ReceivedCloseStream", "SentOpenStream",
           "SentCloseStream", "ReceivedError"}
\* The event the plugin binds, unbinds and triggers.
PluginEvent == "ReceivedCloseStream"

\* Stanza selectors.  IqIdent(n) is '{jabber:client}iq[id=n]'.
IqIdent(n) == [s |-> "iq[id]", id |-> n]
Sel(s) == [s |-> s, id |-> 0]
Selectors == {Sel(s) : s \in {"error", "iq", "starttls", "auth", "abort",
                              "success", "response", "iq/bind", "iq/session",
                              "msg", "iq/ping", "presence"}}
             \cup {IqIdent(n) : n \in 1..(MaxIq + 1)}

\* Callables: what State.run is given and what the tables hold.
H(i) == [k |-> "h", id |-> i]               \* plugin method i
Cb(n) == [k |-> "h", id |-> 100 + n]        \* callback given to Core.iq, request n
C0(k) == [k |-> k, id |-> 0]                \* a method of the core or a feature
D(i) == [k |-> "d", id |-> i]               \* a method of default plugin instance i
WriteJob(d) == [k |-> "write", id |-> 0, d |-> d]
\* The same job, marked as part of the observed sequence.
Marked(c) == [c EXCEPT !.id = 1]
IsMarked(c) == c.k \in {"write", "close_stream", "reset", "_reset"} /\ c.id = 1

None == [k |-> "none", id |-> 0]
\* A table entry: the callable, whether it is wrapped in Once, and the
\* stream (count of resets) during which it was bound.
Entry(c, once, ep) == [c |-> c, once |-> once, ep |-> ep]
NoEntry == Entry(None, FALSE, 0)

VARIABLES
    locked,     \* State.locked
    schedule,   \* State.schedule, the deque of pending jobs
    lists,      \* the list objects ever held by State.events: lists[e][g]
    gen,        \* gen[e]: index of the list State.events[e] refers to now
    stanzas,    \* State.stanzas
    slots,      \* State.state (keys set)
    root,       \* Core.root is not None
    stream,     \* Core.stream is not None
    authJID,    \* Core.authJID is not None
    epoch,      \* number of Core._reset executed
    popen,      \* the parser target: "none" before the peer's stream element,
                \* "open" inside it, "closed" behind its end tag
    socket,     \* ReadStream.socket is not None
    closeCb,    \* ReadStream._close_callback is Core._close
    timer,      \* the 5 second shutdown timeout is armed
    wire,       \* what ReadStream.write accepted, in order
    stack,      \* call stack
    exc,        \* propagating exception: "none", "StreamError", "Error"
    nops, ninputs, nfail, nextIq,
    cbcalls,    \* cbcalls[n]: invocations of the callback of request n
    iqlook,     \* iqlook[n]: for each lookup of iq[id=n], whether it found a handler
    secured,    \* Core.secured: "None", "False", "True"
    handshake,  \* a TLS handshake owns the socket (ReadStream.socket is None)
    wb,         \* ReadStream._wb is not empty
    wcb,        \* ReadStream._write_callback: "none", "close", "starttls"
    stalls,     \* how many more times the peer may stop reading
    closing,    \* Core.close has been called on the live connection
    listening,  \* the application's default plugin declares a stanza handler
                \* and an event listener
    instances,  \* instances of the default plugin made so far
    bound,      \* Resources._bound: the session a full JID is bound to (0: no entry)
    routes,     \* Resources._routes: the JIDs filed under a key (empty: no entry)
    coreJID,    \* authJID of each session sharing the Resources (NoJid: no such
                \* session); for the connection, the value authJID has when set
    refused,    \* Bind.bind of the connection raised a conflict
    hs,         \* the element ServerCore.handle_stanza was last given on a
                \* session: its tag and from attribute, the session's authJID,
                \* what became of it, and the from attribute (fwd) it had
                \* when it went on to the handlers
    rs,         \* a ReadStream, byte by byte: socket ("open"; "tls" is None
                \* while aio.starttls owns the descriptor; "closed" is None
                \* after close), _wb, _write_callback, _reader is set, and the
                \* events of _state besides ERROR
    net,        \* its surroundings: the bytes the socket took (sent), the
                \* bytes given to write (written), the writes made (nw), those
                \* with a callback (cbs), where each ended (ends), the calls of
                \* each callback, the TLS handshake and the calls of its callback
    xs,         \* a Parser and its target: the bytes the peer sends (doc), the
                \* lengths of the chunks received so far, Parser.rb, the depth
                \* of the target's element stack, how often the target
                \* triggered ReceivedStreamOpen, and whether a feed raised;
                \* Parser.stop and Parser.more, where feed_tokens stands
                \* (pc), the root's children and the stanzas delivered
    app,        \* an application's plugins: the activation events each
                \* declares (decl), the tables CompiledPlugins holds, the
                \* events triggered and the plugin instances made
    got,        \* the last step's call of Plugin.send or Plugin.recv: its method,
                \* its target and how often each session was handed the element
    mark        \* what became of the jobs of one marked write, close_stream,
                \* reset sequence of a handler: st is 0 before the sequence is
                \* submitted, 1 after, 2 once its reset has torn the State down;
                \* x and c are the places on the wire of the payload and of the
                \* closing tag (0: not written); open tells whether the outbound
                \* stream was open when the payload was written

stateVars == <<locked, schedule, lists, gen, stanzas, slots>>
coreVars == <<root, stream, authJID, epoch, popen>>
rsVars == <<socket, closeCb, timer, wire>>
ctlVars == <<stack, exc>>
cntVars == <<nops, ninputs, nfail, nextIq>>
ghostVars == <<cbcalls, iqlook, mark>>
netVars == <<secured, handshake, wb, wcb, stalls>>
netIo == <<handshake, wb, wcb, stalls>>
extVars == <<netVars, closing>>
actVars == <<listening, instances>>
resVars == <<bound, routes, coreJID>>
ioVars == <<rs, net>>
farVars == <<resVars, refused, got, hs, ioVars, xs, app>>
auxVars == <<actVars, farVars>>
connVars == <<stateVars, coreVars, rsVars, ctlVars, cntVars, ghostVars, extVars>>
vars == <<connVars, auxVars>>

\* ------------------------------------------------------------ frames
Fr(k, pc, c, x) == [k |-> k, pc |-> pc, c |-> c, x |-> x]
NoX == [n |-> 0]
Frame(c) == Fr(c.k, "start", c, NoX)
Depth == Len(stack)
Top == stack[Depth]
Below == SubSeq(stack, 1, Depth - 1)
Running(k) == Depth > 0 /\ exc = "none" /\ Top.k = k
At(k, pc) == Running(k) /\ Top.pc = pc
Goto(pc) == Below \o <<[Top EXCEPT !.pc = pc]>>

\* The reactor is between two callbacks.
Idle == stack = <<>> /\ exc = "none"

\* ------------------------------------------------------------ State
EmptyStanzas == [s \in Selectors |-> NoEntry]

RemoveAt(seq, i) == SubSeq(seq, 1, i - 1) \o SubSeq(seq, i + 1, Len(seq))

\* State.run, line 147: the job is queued when the lock is held.
ShouldQueue(lk) == lk
\* State.run, line 148: schedule.append.  EnqueueCloseFirst is the queue
\* that would let a close_stream job overtake the jobs queued before it.
EnqueueCloseFirst(q, job) ==
    IF job.k = "close_stream" THEN <<job>> \o q ELSE Append(q, job)
Enqueue(q, job) == Append(q, job)
\* State.flush, line 164: schedule.popleft
NextJob(q) == Head(q)
RestJobs(q) == Tail(q)

\* State.events[e] as the dict holds it now (a missing key is an empty list).
Cur(e) == lists[e][gen[e]]
CurLists == [e \in Events |-> Cur(e)]

\* Is list object g of event e still enumerated by a running trigger()?
InUse(e, g, stk) ==
    \E i \in 1..Len(stk) :
        stk[i].k = "trigger" /\ stk[i].x.ev = e /\ stk[i].x.g = g

\* The dict drops its reference to the list of e: a list that a running
\* trigger() enumerates stays alive, detached; the key gets a new list when
\* it is bound again.
DetachedList(e, stk) ==
    IF InUse(e, gen[e], stk) THEN Append(lists[e], <<>>)
    ELSE [lists[e] EXCEPT ![gen[e]] = <<>>]
DetachedGen(e, stk) == IF InUse(e, gen[e], stk) THEN gen[e] + 1 ELSE gen[e]

KeptStanzas(tbl) == tbl
\* State.clear on the stanza table, line 51: stanzas.clear()
ClearedStanzas(tbl) == [s \in Selectors |-> NoEntry]

\* State.clear on the event map, line 50: events.clear()
ClearedLists(stk) == [e \in Events |-> DetachedList(e, stk)]
ClearedGen(stk) == [e \in Events |-> DetachedGen(e, stk)]

\* State.bind / State.one on the event map (ls, gn)
Bound(ls, gn, e, c, once) ==
    [ls EXCEPT ![e][gn[e]] = Append(@, Entry(c, once, epoch))]

\* CompiledPlugins.install: each activation event of a special plugin gets
\* a one-shot listener that activates the group.
SpecialEvent == "ReceivedOpenStream"
Installed(ls, gn, ep) ==
    [ls EXCEPT ![SpecialEvent][gn[SpecialEvent]] =
        Append(@, Entry(C0("activate_group"), TRUE, ep))]
InstalledLists(ep) ==
    [e \in Events |-> IF e = SpecialEvent
                      THEN <<Entry(C0("activate_group"), TRUE, ep)>>
                      ELSE <<>>]

\* Core._reset, lines 47-48: the selectors the core binds at stream start.
CoreBound(tbl, ep) ==
    [tbl EXCEPT ![Sel("error")] = Entry(C0("handle_error"), FALSE, ep),
                ![Sel("iq")] = Entry(C0("info_query"), FALSE, ep)]
CoreStanzas(ep) == CoreBound(EmptyStanzas, ep)

\* State.unbind: list.remove(callback) drops the first equal element; a
\* Once wrapper never equals the bare callback.
FirstIndex(seq, c) ==
    LET S == {i \in 1..Len(seq) : seq[i].c = c /\ ~seq[i].once}
    IN IF S = {} THEN 0 ELSE CHOOSE i \in S : \A j \in S : i <= j
Unbound(ls, gn, e, c) ==
    LET i == FirstIndex(ls[e][gn[e]], c)
    IN IF i = 0 THEN ls ELSE [ls EXCEPT ![e][gn[e]] = RemoveAt(@, i)]

\* ------------------------------------------------------------ JIDs
\* xml.jid: a JID is its bare part and its resource ("" for none).  Two
\* JIDs are equal, and are the same dictionary key, when their text is.
Sessions == 1..MaxSessions
Bares == {"a@h", "b@h"}
ResourceIds == {"r1", "r2"}
Jid(b, r) == [bare |-> b, res |-> r]
NoJid == Jid("", "")
BareJids == {Jid(b, "") : b \in Bares}
FullJids == {Jid(b, r) : b \in Bares, r \in ResourceIds}
Jids == BareJids \cup FullJids

\* xml.jid(obj, resource=r) for a jid object obj (jid.__init__, the
\* isinstance branch): "resource or obj.resource", so a false resource
\* argument leaves the object's own resource in place.
JidResource(obj, r) == Jid(obj.bare, IF r # "" THEN r ELSE obj.res)

\* xml.is_full_jid for a jid object.
is_full_jid(j) == j.res # ""

\* ------------------------------------------------------------ Resources tables
\* The tables as one value, so that a sequence of calls can be composed.
Tables == [bound |-> bound, routes |-> routes]

\* Resources._bind(core, bare, jid), state.py lines 220-227.  setdefault
\* leaves an existing entry in place; the call raises IQError when the
\* entry refers to another core, before the routes are touched.
Conflict(t, core, jid) == t.bound[jid] \notin {0, core}
Registered(t, core, bare, jid) ==
    [bound |-> [t.bound EXCEPT ![jid] = core],
     routes |-> [t.routes EXCEPT ![bare] = @ \cup {jid}]]

\* Resources.unbind(jid), state.py lines 229-240, for a jid that has an
\* entry.  set.remove raises KeyError when jid is not in the set: the
\* entry in _bound is gone by then and the routes stay as they are.
Removed(t, jid) ==
    LET bare == JidResource(jid, "")
        filed == t.routes[bare]
    IN [bound |-> [t.bound EXCEPT ![jid] = 0],
        routes |-> IF filed = {} THEN t.routes
                   ELSE IF Cardinality(filed) > 1
                        THEN [t.routes EXCEPT ![bare] = @ \ {jid}]
                        ELSE [t.routes EXCEPT ![bare] = {}]]

\* The callbacks of the weak references to one core, run one after another
\* (Resources.__init__, remove, lines 199-203).
RECURSIVE RemovedAll(_, _)
RemovedAll(t, js) ==
    IF js = {} THEN t
    ELSE LET j == CHOOSE x \in js : TRUE
         IN RemovedAll(Removed(t, j), js \ {j})

\* ------------------------------------------------------------ initial state
\* Resources.__init__: both tables are empty; no session exists yet.
ResInit ==
    /\ bound = [j \in FullJids |-> 0]
    /\ routes = [k \in Jids |-> {}]
    /\ coreJID = [s \in Sessions |-> NoJid]

\* The connection is session Self of the server and authenticates as a@h.
\* Another session of the same account holds the resource r1.
Self == 1
Owner == 2
OwnedInit ==
    /\ bound = [j \in FullJids |-> IF j = Jid("a@h", "r1") THEN Owner ELSE 0]
    /\ routes = [k \in Jids |-> IF k = Jid("a@h", "") THEN {Jid("a@h", "r1")} ELSE {}]
    /\ coreJID = [s \in Sessions |-> IF s = Self THEN Jid("a@h", "")
                                     ELSE IF s = Owner THEN Jid("a@h", "r1")
                                     ELSE NoJid]

\* No call of Plugin.send or Plugin.recv.
NoCall == [m |-> "none", to |-> NoJid, n |-> [s \in Sessions |-> 0]]

\* No element has been given to handle_stanza.
NoElem == [tag |-> "none", from |-> NoJid, auth |-> NoJid, out |-> "none",
           fwd |-> NoJid]

\* Values of ReadStream._write_callback: None, the callback given to the
\* n-th write, ReadStream.close, and the deferred starttls.
NoCb == [k |-> "none", n |-> 0]
Done(n) == [k |-> "done", n |-> n]
CloseCb == [k |-> "close", n |-> 0]
StartTlsCb == [k |-> "starttls", n |-> 0]

\* ReadStream.__init__, lines 16-28.
RsInit ==
    /\ rs = [socket |-> "open", wb |-> <<>>, wcb |-> NoCb, reader |-> FALSE,
             state |-> {}]
    /\ net = [sent |-> <<>>, written |-> <<>>, nw |-> 0, cbs |-> {},
              ends |-> [n \in 1..MaxWrites |-> 0],
              calls |-> [n \in 1..MaxWrites |-> 0],
              tls |-> "none", tlscalls |-> 0, uncallable |-> FALSE]

\* Parser.__init__ (xml.py lines 51-57) before a byte has arrived.
ParserInit ==
    xs = [doc |-> <<>>, chunks |-> <<>>, rb |-> <<>>, peer |-> 0, opens |-> 0,
          err |-> FALSE, stop |-> FALSE, more |-> FALSE, pc |-> "idle",
          recv |-> 0, fed |-> <<>>, gen |-> 0, by |-> <<>>, cuts |-> <<>>,
          seen |-> <<>>, took |-> 0, passes |-> 0, kids |-> 0,
          delivered |-> 0]

\* An application declares up to MaxPlugins plugins; each plugin is told by
\* its place in the declaration and declares the activation events of its
\* __activate__ tuple (plugin.py lines 32 and 450: () unless @bind(...)
\* decorates the class).
ActivationEvents == {"E1", "E2"}
Activations == {<<>>, <<"E1">>, <<"E1", "E2">>}
Declarations ==
    UNION {[1..n -> Activations] : n \in 1..MaxPlugins}
NoTables ==
    [decl |-> <<>>, special |-> [e \in ActivationEvents |-> <<>>],
     default |-> <<>>, compiled |-> FALSE, fired |-> {}, made |-> <<>>,
     bydefault |-> <<>>]
TablesInit == app = NoTables

FarInit ==
    /\ ResInit
    /\ refused = FALSE
    /\ got = NoCall
    /\ hs = NoElem
    /\ RsInit
    /\ ParserInit
    /\ TablesInit

\* The application's default plugin declares no handlers.
AuxInit ==
    /\ listening = FALSE
    /\ instances = 0
    /\ FarInit

\* Core.__init__ of a ServerCore: State(), install_features(), _reset().
\* The server has no certificate (TLS.install sets secured to False), the
\* socket takes every write at once, and the peer keeps the connection.
\* The connection starts unauthorized, or authorized: the state that the
\* reset after a successful SASL exchange leaves (authJID is kept by resets).
Init ==
    /\ locked = FALSE
    /\ schedule = <<>>
    /\ lists = [e \in Events |-> <<InstalledLists(0)[e]>>]
    /\ gen = [e \in Events |-> 1]
    /\ stanzas = CoreStanzas(0)
    /\ slots = {}
    /\ root = FALSE
    /\ stream = TRUE
    /\ authJID \in BOOLEAN
    /\ epoch = 0
    /\ popen = "none"
    /\ socket = TRUE
    /\ closeCb = FALSE
    /\ timer = FALSE
    /\ wire = <<>>
    /\ stack = <<>>
    /\ exc = "none"
    /\ nops = 0
    /\ ninputs = 0
    /\ nfail = 0
    /\ nextIq = 1
    /\ cbcalls = [n \in 1..(MaxIq + 1) |-> 0]
    /\ iqlook = [n \in 1..(MaxIq + 1) |-> <<>>]
    /\ mark = [st |-> 0, x |-> 0, c |-> 0, open |-> FALSE]
    /\ secured = "False"
    /\ handshake = FALSE
    /\ wb = FALSE
    /\ wcb = "none"
    /\ stalls = 0
    /\ closing = FALSE
    /\ AuxInit

\* ------------------------------------------------------------ effects
\* State.clear applied while `stk' is the call stack.
StateClear(stk) ==
    /\ locked' = FALSE
    /\ schedule' = <<>>
    /\ lists' = ClearedLists(stk)
    /\ gen' = ClearedGen(stk)
    /\ stanzas' = ClearedStanzas(stanzas)
    /\ slots' = {}

\* Core._close: tear the connection down once.  ReadStream.shutdown closes
\* the socket at once when the write buffer is empty (a registered close
\* callback re-enters _close harmlessly); with bytes still buffered it only
\* makes close() the callback of the write in progress.
CoreClose(stk) ==
    IF stream
    THEN /\ StateClear(stk)
         /\ stream' = FALSE
         /\ IF socket /\ wb
            THEN socket' = socket /\ wcb' = "close"
            ELSE socket' = FALSE /\ wcb' = wcb
    ELSE UNCHANGED <<stateVars, socket, stream, wcb>>

\* ReadStream.close, lines 64-72, while `stk' is the call stack: the socket
\* is closed and the close callback runs, if one was registered; that is
\* Core._close, whose own shutdown() then finds no socket.
RsClose(stk) ==
    /\ socket' = FALSE
    /\ IF socket /\ closeCb /\ stream
       THEN StateClear(stk) /\ stream' = FALSE
       ELSE UNCHANGED <<stateVars, stream>>

\* The callback of request n is entered once more when job c starts.
Invoked(c) ==
    IF c.k = "h" /\ c.id > 100
    THEN [cbcalls EXCEPT ![c.id - 100] = @ + 1]
    ELSE cbcalls

\* A `with state.lock()' block: orig is the value of locked it saved.
LockFrame(k, orig) == Fr(k, "call", None, [sexc |-> "none", orig |-> orig])
RunFrame == LockFrame("run", FALSE)
FlushFrame == Fr("flush", "loop", None, NoX)

\* State.run(c), called by the frame that leaves `stk' as the stack.
DoRun(c, stk) ==
    IF ShouldQueue(locked)
    THEN /\ schedule' = Enqueue(schedule, c)
         /\ stack' = stk
         /\ UNCHANGED <<locked, cbcalls>>
    ELSE /\ locked' = TRUE
         /\ stack' = stk \o <<RunFrame, Frame(c)>>
         /\ cbcalls' = Invoked(c)
         /\ UNCHANGED schedule

\* State.trigger(e), called by the frame that leaves `stk' as the stack.
TriggerFrame(e) ==
    Fr("trigger", "loop", None,
       [ev |-> e, g |-> gen[e], idx |-> 0, snap |-> Cur(e),
        inv |-> <<>>, lk |-> locked])
StartTrigger(e, stk) ==
    IF Cur(e) = <<>> THEN stk ELSE stk \o <<TriggerFrame(e)>>

\* ------------------------------------------------------------ State.run / lock
\* The body of a `with state.lock()' block has returned: the saved value of
\* locked is restored and, if the lock was free before, pending jobs are
\* flushed (State.lock, lines 138-141).
LockExitUnflushed(sexc) ==
    /\ locked' = Top.x.orig
    /\ stack' = Below
    /\ exc' = sexc
LockExit(sexc) ==
    IF ~Top.x.orig /\ schedule # <<>>
    THEN /\ locked' = TRUE
         /\ stack' = Below \o <<[Top EXCEPT !.pc = "fin", !.x.sexc = sexc],
                                FlushFrame>>
         /\ exc' = "none"
    ELSE /\ locked' = Top.x.orig
         /\ stack' = Below
         /\ exc' = sexc

RunReturn ==
    /\ Running("run") \/ Running("lock")
    /\ Top.pc = "call"
    /\ LockExit("none")
    /\ UNCHANGED <<schedule, lists, gen, stanzas, slots, coreVars, rsVars,
                   cntVars, ghostVars>>
    /\ UNCHANGED extVars
    /\ UNCHANGED auxVars

\* The flush of the lock's finally clause is over; an exception that was
\* propagating through the with-block is raised again.
RunFin ==
    /\ Running("run") \/ Running("lock")
    /\ Top.pc = "fin"
    /\ stack' = Below
    /\ exc' = Top.x.sexc
    /\ UNCHANGED <<stateVars, coreVars, rsVars, cntVars, ghostVars>>
    /\ UNCHANGED extVars
    /\ UNCHANGED auxVars

\* State.flush, lines 161-167: one turn of the while loop, or its end.
FlushStep ==
    /\ Running("flush")
    /\ IF schedule = <<>>
       THEN /\ locked' = FALSE
            /\ stack' = Below
            /\ UNCHANGED <<schedule, cbcalls>>
       ELSE /\ schedule' = RestJobs(schedule)
            /\ stack' = stack \o <<Frame(NextJob(schedule))>>
            /\ cbcalls' = Invoked(NextJob(schedule))
            /\ UNCHANGED locked
    /\ UNCHANGED <<lists, gen, stanzas, slots, coreVars, rsVars, exc,
                   cntVars, iqlook, mark>>
    /\ UNCHANGED extVars
    /\ UNCHANGED auxVars

\* ------------------------------------------------------------ State.trigger
\* State.trigger, line 86: a one-shot listener is deleted by index from the
\* list being enumerated.
AfterFire(L, i, en) == IF en.once THEN RemoveAt(L, i) ELSE L
\* enumerate() moves on to the next index whatever happened to the list.
NextIndex(idx) == idx + 1

TriggerStep ==
    /\ At("trigger", "loop")
    /\ LET x == Top.x
           L == lists[x.ev][x.g]
       IN IF x.idx < Len(L)
          THEN LET en == L[x.idx + 1]
                   f == [Top EXCEPT !.x.idx = NextIndex(x.idx),
                                    !.x.inv = Append(x.inv, en)]
               IN /\ lists' = [lists EXCEPT ![x.ev][x.g] =
                                  AfterFire(L, x.idx + 1, en)]
                  /\ DoRun(en.c, Below \o <<f>>)
          ELSE /\ stack' = Goto("done")
               /\ UNCHANGED <<locked, schedule, lists, cbcalls>>
    /\ UNCHANGED <<gen, stanzas, slots, coreVars, rsVars, exc, cntVars,
                   iqlook, mark>>
    /\ UNCHANGED extVars
    /\ UNCHANGED auxVars

\* trigger() returns; a detached list nobody iterates any more is garbage.
TriggerReturn ==
    /\ At("trigger", "done")
    /\ stack' = Below
    /\ lists' = IF Top.x.g # gen[Top.x.ev] /\ ~InUse(Top.x.ev, Top.x.g, Below)
                THEN [lists EXCEPT ![Top.x.ev][Top.x.g] = <<>>]
                ELSE lists
    /\ UNCHANGED <<locked, schedule, gen, stanzas, slots, coreVars, rsVars,
                   exc, cntVars, ghostVars>>
    /\ UNCHANGED extVars
    /\ UNCHANGED auxVars

\* ------------------------------------------------------------ ReadStream
\* xml.is_element(data): the payload "s" is a string, all others Elements.
IsElem(d) == d # "s"

\* socket.send() takes the bytes, would block (the bytes stay in the write
\* buffer; at most MaxStall writes find a full socket), or reports an error
\* (at most MaxFail times).
Outs ==
    {"sent"} \cup (IF nfail < MaxFail THEN {"error"} ELSE {})
             \cup (IF wb \/ stalls > 0 THEN {"blocked"} ELSE {})

\* Core.stream is set and its socket is open; otherwise the write raises.
CanSend == stream /\ socket

\* The callback of a write runs once the buffer is empty (_write, lines
\* 158-161): ReadStream.close after a shutdown, ReadStream.starttls after
\* <proceed/>, which hands the socket to the handshake.
Drained(cb, stk) ==
    /\ wb' = FALSE
    /\ stalls' = stalls
    /\ nfail' = nfail
    /\ wcb' = "none"
    /\ IF cb = "close"
       THEN RsClose(stk) /\ handshake' = handshake
       ELSE /\ handshake' = (handshake \/ cb = "starttls")
            /\ socket' = (socket /\ cb # "starttls")
            /\ UNCHANGED <<stateVars, stream>>

\* _write, lines 153-157: a socket error closes the stream.
WriteFailed(stk) ==
    /\ nfail' = nfail + 1
    /\ RsClose(stk)
    /\ UNCHANGED <<wb, wcb, stalls, handshake>>

\* ReadStream.write / _write, lines 40-48 and 146-162, while `stk' is the
\* call stack: the bytes join the buffer in order, cb becomes the write
\* callback.
SendCb(d, out, stk, cb) ==
    IF out = "sent"
    THEN /\ wire' = Append(wire, d)
         /\ Drained(cb, stk)
    ELSE IF out = "blocked"
    THEN /\ wire' = Append(wire, d)
         /\ wb' = TRUE
         /\ wcb' = cb
         /\ stalls' = IF wb THEN stalls ELSE stalls - 1
         /\ UNCHANGED <<stateVars, socket, stream, nfail, handshake>>
    ELSE /\ wire' = wire
         /\ WriteFailed(stk)
Send(d, out, stk) == SendCb(d, out, stk, "none")

\* The listeners of e are gone when the failed send ran Core._close.
Survives(out) == out # "error" \/ ~closeCb

\* ------------------------------------------------------------ Core jobs
\* The callback Core.write passes on to ReadStream.write: TLS.proceed gives
\* TLS.starttls (line 421), nobody else gives one.
WriteCallback(d) == IF d = "proceed" THEN "starttls" ELSE "none"

\* Core.write, lines 93-97 (the method the writer decorator queues).
DoWrite ==
    /\ At("write", "start")
    /\ \E ok \in Outs :
        IF (IsElem(Top.c.d) /\ ~root) \/ ~CanSend
        THEN /\ exc' = "Error"
             /\ stack' = Below
             /\ UNCHANGED <<stateVars, socket, stream, wire, nfail, netIo>>
        ELSE /\ SendCb(Top.c.d, ok, Below, WriteCallback(Top.c.d))
             /\ stack' = Below
             /\ exc' = exc
    /\ mark' = IF IsMarked(Top.c) /\ (IsElem(Top.c.d) => root) /\ CanSend
                  /\ wire' # wire
               THEN [mark EXCEPT !.x = Len(wire'), !.open = root]
               ELSE mark
    /\ UNCHANGED <<root, authJID, epoch, popen, closeCb, timer, nops, ninputs,
                   nextIq, cbcalls, iqlook>>
    /\ UNCHANGED <<secured, closing>>
    /\ UNCHANGED auxVars

\* Core.open_stream, lines 99-104.
DoOpenStream ==
    /\ At("open_stream", "start")
    /\ \E ok \in Outs :
        IF root
        THEN /\ stack' = Below
             /\ UNCHANGED <<stateVars, socket, stream, wire, nfail, root, exc, netIo>>
        ELSE /\ root' = TRUE
             /\ IF ~CanSend
                THEN /\ exc' = "Error"
                     /\ stack' = Below
                     /\ UNCHANGED <<stateVars, socket, stream, wire, nfail, netIo>>
                ELSE /\ Send("open", ok, Below)
                     /\ exc' = exc
                     /\ stack' = IF Survives(ok)
                                 THEN StartTrigger("SentOpenStream", Below)
                                 ELSE Below
    /\ UNCHANGED <<authJID, epoch, popen, closeCb, timer, nops, ninputs, nextIq,
                   ghostVars>>
    /\ UNCHANGED <<secured, closing>>
    /\ UNCHANGED auxVars

\* Core.close_stream, lines 111-116.
DoCloseStream ==
    /\ At("close_stream", "start")
    /\ \E ok \in Outs :
        IF ~root
        THEN /\ stack' = Below
             /\ UNCHANGED <<stateVars, socket, stream, wire, nfail, root, exc, netIo>>
        ELSE IF ~CanSend
             THEN /\ exc' = "Error"
                  /\ stack' = Below
                  /\ UNCHANGED <<stateVars, socket, stream, wire, nfail, root, netIo>>
             ELSE /\ Send("close", ok, Below)
                  /\ root' = FALSE
                  /\ exc' = exc
                  /\ stack' = IF Survives(ok)
                              THEN StartTrigger("SentCloseStream", Below)
                              ELSE Below
    /\ mark' = IF IsMarked(Top.c) /\ wire' # wire
               THEN [mark EXCEPT !.c = Len(wire')]
               ELSE mark
    /\ UNCHANGED <<authJID, epoch, popen, closeCb, timer, nops, ninputs, nextIq,
                   cbcalls, iqlook>>
    /\ UNCHANGED <<secured, closing>>
    /\ UNCHANGED auxVars

\* Core.reset, lines 106-109 (the queued method).
DoReset ==
    /\ At("reset", "start")
    /\ stack' = IF stream
                THEN Below \o <<Frame([k |-> "_reset", id |-> Top.c.id])>>
                ELSE Below
    /\ UNCHANGED <<stateVars, coreVars, rsVars, exc, cntVars, ghostVars>>
    /\ UNCHANGED extVars
    /\ UNCHANGED auxVars

\* Core._close run as a job (Core.close with no outbound stream open).
DoClose ==
    /\ At("_close", "start")
    /\ CoreClose(Below)
    /\ stack' = Below
    /\ UNCHANGED <<root, authJID, epoch, popen, closeCb, timer, wire, exc, cntVars,
                   ghostVars>>
    /\ UNCHANGED <<secured, handshake, wb, stalls, closing>>
    /\ UNCHANGED auxVars

\* ------------------------------------------------------------ Core._reset
\* State.reset is flush(True).clear().install(): first the pending jobs are
\* run, whoever holds the lock.
ResetFlush ==
    /\ At("_reset", "start")
    /\ IF schedule = <<>>
       THEN /\ stack' = Goto("clear")
            /\ locked' = locked
       ELSE /\ stack' = Below \o <<[Top EXCEPT !.pc = "clear",
                                               !.x.n = Len(schedule)]>>
                         \o <<FlushFrame>>
            /\ locked' = TRUE
    /\ UNCHANGED <<schedule, lists, gen, stanzas, slots, coreVars, rsVars,
                   exc, cntVars, ghostVars>>
    /\ UNCHANGED extVars
    /\ UNCHANGED auxVars

\* ... then the tables are emptied, the plugins installed again, and
\* Core._reset (lines 46-50) drops the outbound root, binds the selectors of
\* the core and resets the parser.  ServerCore.initiate does nothing.
ResetClear ==
    /\ At("_reset", "clear")
    /\ locked' = FALSE
    /\ schedule' = <<>>
    /\ gen' = ClearedGen(stack)
    /\ lists' = Installed(ClearedLists(stack), ClearedGen(stack), epoch + 1)
    /\ stanzas' = CoreBound(ClearedStanzas(stanzas), epoch + 1)
    /\ slots' = {}
    /\ root' = FALSE
    /\ epoch' = epoch + 1
    /\ popen' = "none"
    /\ stack' = Goto("done")
    /\ mark' = IF IsMarked(Top.c) THEN [mark EXCEPT !.st = 2] ELSE mark
    /\ UNCHANGED <<stream, authJID, rsVars, exc, cntVars, cbcalls, iqlook>>
    /\ UNCHANGED extVars
    /\ UNCHANGED auxVars

ResetReturn ==
    /\ At("_reset", "done")
    /\ stack' = Below
    /\ UNCHANGED <<stateVars, coreVars, rsVars, exc, cntVars, ghostVars>>
    /\ UNCHANGED extVars
    /\ UNCHANGED auxVars

\* ------------------------------------------------------------ Core.error
\* The frame remembers what the wire held, whether the outbound stream was
\* open and how many socket errors had occurred when error() was called.
ErrorFrame(name) ==
    Fr("error", "start", None,
       [name |-> name, w0 |-> Len(wire), r0 |-> root, f0 |-> nfail])

ErrorJobsUnclosed ==
    Enqueue(Enqueue(<<>>, C0("open_stream")), WriteJob("error"))
\* Core.error, lines 152-163: under the lock of the cleared State,
\* open_stream(), write(elem) and close_stream() are queued.
ErrorJobs ==
    Enqueue(Enqueue(Enqueue(<<>>, C0("open_stream")), WriteJob("error")),
            C0("close_stream"))

\* Core.error, lines 147-163: nothing but a log line once the stream is
\* gone; otherwise the State is cleared and, under the lock, the opening
\* tag, the error element and the closing tag are queued; leaving the lock
\* flushes them.
ErrorBegin ==
    /\ At("error", "start")
    /\ IF ~stream
       THEN /\ stack' = Below
            /\ UNCHANGED stateVars
       ELSE /\ lists' = ClearedLists(stack)
            /\ gen' = ClearedGen(stack)
            /\ stanzas' = ClearedStanzas(stanzas)
            /\ slots' = {}
            /\ schedule' = ErrorJobs
            /\ locked' = TRUE
            /\ stack' = Goto("close") \o <<FlushFrame>>
    /\ UNCHANGED <<coreVars, rsVars, exc, cntVars, ghostVars>>
    /\ UNCHANGED extVars
    /\ UNCHANGED auxVars

\* Core.error, line 164: self._close()
ErrorClose ==
    /\ At("error", "close")
    /\ CoreClose(stack)
    /\ stack' = Goto("done")
    /\ UNCHANGED <<root, authJID, epoch, popen, closeCb, timer, wire, exc, cntVars,
                   ghostVars>>
    /\ UNCHANGED <<secured, handshake, wb, stalls, closing>>
    /\ UNCHANGED auxVars

ErrorReturn ==
    /\ At("error", "done") \/ At("error", "failed")
    /\ stack' = Below
    /\ UNCHANGED <<stateVars, coreVars, rsVars, exc, cntVars, ghostVars>>
    /\ UNCHANGED extVars
    /\ UNCHANGED auxVars

\* ------------------------------------------------------------ plugin code
\* A plugin method (stanza handler, event listener, iq callback, __init__)
\* is running: it calls the Plugin API any number of times, then returns or
\* raises.  It always runs with the lock held, so what it submits is queued.
InPlugin ==
    /\ At("h", "start")
    /\ nops < MaxOps
    /\ ninputs + nops < MaxWork
    /\ Top.x.n = 0

\* The call goes through Core.writer, that is through State.run.
Submit(c, cl) ==
    /\ InPlugin
    /\ nops' = nops + 1
    /\ DoRun(c, stack)
    /\ UNCHANGED <<lists, gen, stanzas, slots, coreVars, rsVars, exc,
                   ninputs, nfail, nextIq, iqlook, mark>>
    /\ closing' = cl
    /\ UNCHANGED netVars
    /\ UNCHANGED auxVars

\* Plugin.write
HWrite == \E d \in Data : Submit(WriteJob(d), closing)
\* Plugin.open_stream
HOpenStream == Submit(C0("open_stream"), closing)
\* Plugin.close_stream
HCloseStream == Submit(C0("close_stream"), closing)
\* Plugin.reset_stream
HReset == Submit(C0("reset"), closing)

\* The method calls write(d), close_stream() and reset_stream() in a row:
\* the same three calls as above, their jobs marked.  Top.x.n counts the
\* calls of the sequence made so far.
SequenceJob(n, d) ==
    Marked(IF n = 0 THEN WriteJob(d)
           ELSE IF n = 1 THEN C0("close_stream") ELSE C0("reset"))
HSequence ==
    /\ At("h", "start")
    /\ IF Top.x.n = 0
       THEN mark.st = 0 /\ nops + 3 <= MaxOps /\ ninputs + nops + 3 <= MaxWork
       ELSE TRUE
    /\ nops' = nops + 1
    /\ mark' = [mark EXCEPT !.st = 1]
    /\ \E d \in Data :
        DoRun(SequenceJob(Top.x.n, d),
              Below \o <<[Top EXCEPT !.x.n = (Top.x.n + 1) % 3]>>)
    /\ UNCHANGED <<lists, gen, stanzas, slots, coreVars, rsVars, exc,
                   ninputs, nfail, nextIq, iqlook>>
    /\ UNCHANGED extVars
    /\ UNCHANGED auxVars

\* Plugin.close, Core.close lines 118-123
HClose ==
    IF stream
    THEN Submit(IF root THEN C0("close_stream") ELSE C0("_close"),
                closing \/ root)
    ELSE /\ InPlugin
         /\ nops' = nops + 1
         /\ UNCHANGED <<stateVars, coreVars, rsVars, ctlVars, ninputs, nfail,
                        nextIq, ghostVars, extVars>>
    /\ UNCHANGED auxVars

\* Plugin.bind / Plugin.one with an event
HBind ==
    /\ InPlugin
    /\ nops' = nops + 1
    /\ \E i \in Handlers, once \in BOOLEAN :
        lists' = Bound(lists, gen, PluginEvent, H(i), once)
    /\ UNCHANGED <<locked, schedule, gen, stanzas, slots, coreVars, rsVars,
                   ctlVars, ninputs, nfail, nextIq, ghostVars>>
    /\ UNCHANGED extVars
    /\ UNCHANGED auxVars

\* Plugin.unbind with an event
HUnbind ==
    /\ InPlugin
    /\ nops' = nops + 1
    /\ \E i \in Handlers : lists' = Unbound(lists, gen, PluginEvent, H(i))
    /\ UNCHANGED <<locked, schedule, gen, stanzas, slots, coreVars, rsVars,
                   ctlVars, ninputs, nfail, nextIq, ghostVars>>
    /\ UNCHANGED extVars
    /\ UNCHANGED auxVars

\* Plugin.trigger with an event
HTrigger ==
    /\ InPlugin
    /\ nops' = nops + 1
    /\ stack' = StartTrigger(PluginEvent, stack)
    /\ UNCHANGED <<stateVars, coreVars, rsVars, exc, ninputs, nfail, nextIq,
                   ghostVars>>
    /\ UNCHANGED extVars
    /\ UNCHANGED auxVars

\* Plugin.iq('get'|'set', callback, body): Core.iq, iq_bind, iq_send.  The
\* nonce is fresh, so one_stanza(.., replace=False) never finds the selector
\* taken.
HIq ==
    /\ InPlugin
    /\ nextIq <= MaxIq
    /\ nops' = nops + 1
    /\ nextIq' = nextIq + 1
    /\ stanzas' = [stanzas EXCEPT ![IqIdent(nextIq)] =
                      Entry(Cb(nextIq), TRUE, epoch)]
    /\ DoRun(WriteJob("iq"), stack)
    /\ UNCHANGED <<lists, gen, slots, coreVars, rsVars, exc, ninputs, nfail,
                   iqlook, mark>>
    /\ UNCHANGED extVars
    /\ UNCHANGED auxVars

\* The method reports a stream error itself: Core.error, reached through
\* Feature.core (or the core the plugin was given).
HError ==
    /\ InPlugin
    /\ nops' = nops + 1
    /\ stack' = stack \o <<ErrorFrame("policy-violation")>>
    /\ UNCHANGED <<stateVars, coreVars, rsVars, exc, ninputs, nfail, nextIq,
                   ghostVars>>
    /\ UNCHANGED extVars
    /\ UNCHANGED auxVars

HReturn ==
    /\ At("h", "start")
    /\ Top.x.n = 0
    /\ stack' = Below
    /\ UNCHANGED <<stateVars, coreVars, rsVars, exc, cntVars, ghostVars>>
    /\ UNCHANGED extVars
    /\ UNCHANGED auxVars

HRaise ==
    /\ InPlugin
    /\ nops' = nops + 1
    /\ stack' = Below
    /\ exc' = "Error"
    /\ UNCHANGED <<stateVars, coreVars, rsVars, ninputs, nfail, nextIq, ghostVars>>
    /\ UNCHANGED extVars
    /\ UNCHANGED auxVars

\* ------------------------------------------------------------ received stanzas
\* The attributes of a received element the handlers look at: tag, iq type,
\* iq id, first child, and (for SASL elements) what the mechanism makes of it.
El(tag, ty, id, child, r) ==
    [s |-> tag, ty |-> ty, id |-> id, child |-> child, r |-> r]
\* SASL.MECHANISMS, line 449: PLAIN and DIGEST-MD5; only the latter is
\* SECURE.  An <auth/> names one of them or something else; what the
\* mechanism object makes of the peer's data is the peer's choice.
OfferedMechs == {"PLAIN", "DIGEST-MD5"}
Secure(m) == m = "DIGEST-MD5"

InStanzas ==
    {El("msg", "", 0, "", ""), El("junk", "", 0, "", ""),
     El("error", "", 0, "", ""), El("abort", "", 0, "", ""),
     El("starttls", "", 0, "", "")}
    \cup {El("iq", "get", 0, c, "") : c \in {"ping", "none"}}
    \cup {El("iq", "set", 0, c, "") : c \in {"bind", "session"}}
    \cup {El("iq", ty, n, "", "") : ty \in {"result", "error"},
                                    n \in 1..(MaxIq + 1)}
    \cup {El("auth", "", 0, m, r) :
              m \in OfferedMechs, r \in {"challenge", "success", "failure"}}
    \cup {El("auth", "", 0, "X-OTHER", "")}
    \cup {El("response", "", 0, "", r) :
              r \in {"challenge", "success", "failure"}}

\* The handler as trigger_stanza calls it: partial(handler, elem).
WithElem(c, el) == [k |-> c.k, id |-> c.id, el |-> el]

\* State.is_stanza
IsStanza(sel) == sel \in Selectors /\ stanzas[sel] # NoEntry

\* The parser target (xmppstream.XMPPTarget, which core.py line 32 names and
\* the sources do not hold): a child of the stream element must be a name
\* for which Core.is_stanza is true, or unsupported-stanza-type is raised.
TargetAcceptsKnown(el) == Sel(el.s) \in Selectors
TargetAccepts(el) == IsStanza(Sel(el.s))

TakenKept(sel) == stanzas
\* State.trigger_stanza, lines 121-123, for a selector that is bound.
Taken(sel) == IF stanzas[sel].once
              THEN [stanzas EXCEPT ![sel] = NoEntry] ELSE stanzas

\* Core.close, lines 118-123, called by the frame that leaves `stk'.
CloseCall(stk) ==
    IF stream
    THEN DoRun(IF root THEN C0("close_stream") ELSE C0("_close"), stk)
    ELSE /\ stack' = stk
         /\ UNCHANGED <<locked, schedule, cbcalls>>

\* ------------------------------------------------------------ ServerCore
\* ServerCore.handle_open_stream, lines 694-697.
OpenTrigger ==
    /\ At("handle_open_stream", "start")
    /\ stack' = StartTrigger(SpecialEvent, Goto("after"))
    /\ UNCHANGED <<stateVars, coreVars, rsVars, exc, cntVars, ghostVars>>
    /\ UNCHANGED extVars
    /\ UNCHANGED auxVars

OpenAfter ==
    /\ At("handle_open_stream", "after")
    /\ DoRun(C0("_after"), Below)
    /\ UNCHANGED <<lists, gen, stanzas, slots, coreVars, rsVars, exc,
                   cntVars, iqlook, mark>>
    /\ UNCHANGED extVars
    /\ UNCHANGED auxVars

\* ServerCore._after, line 700.
AfterOpen ==
    /\ At("_after", "start")
    /\ DoRun(C0("open_stream"), Goto("features"))
    /\ UNCHANGED <<lists, gen, stanzas, slots, coreVars, rsVars, exc,
                   cntVars, iqlook, mark>>
    /\ UNCHANGED extVars
    /\ UNCHANGED auxVars

\* TLS.active, lines 412-413: secured is None only on a server that has a
\* certificate and a key (TLS.install, lines 408-410), so use_tls() comes
\* down to the socket being there.
TlsActive == secured = "None" /\ socket
SaslActiveStill == TRUE
\* SASL.active, lines 455-456 (an auth provider is configured).
SaslActive == ~authJID
\* Bind.active and Session.active, lines 580-581 and 616-617.
BindActive == authJID

\* SASL.mechanisms, lines 535-544: the list is computed once per stream and
\* kept in the State slot 'mechanisms'.
MechSlots == {"mechanisms", "mechanisms+PLAIN"}
ComputedAll(sec) == OfferedMechs
Computed(sec) == {m \in OfferedMechs : sec = "True" \/ Secure(m)}
WithMechs(sl) ==
    IF sl \cap MechSlots # {} THEN sl
    ELSE sl \cup {IF "PLAIN" \in Computed(secured)
                  THEN "mechanisms+PLAIN" ELSE "mechanisms"}
Allowed(sl) ==
    IF "mechanisms+PLAIN" \in sl THEN OfferedMechs
    ELSE IF "mechanisms" \in sl THEN {"DIGEST-MD5"}
    ELSE Computed(secured)

\* The <stream:features> element, by the features it holds.
Offer(t, m, b) ==
    "features" \o (IF t THEN "+starttls" ELSE "")
               \o (IF m THEN "+mechanisms" ELSE "")
               \o (IF b THEN "+bind+session" ELSE "")
Offers == {Offer(t, m, b) : t \in BOOLEAN, m \in BOOLEAN, b \in BOOLEAN}

\* Core.send_features, lines 221-225: every active feature is included, and
\* binds its selectors in include().
FeatureStanzas ==
    [sel \in Selectors |->
        IF TlsActive /\ sel = Sel("starttls")
        THEN Entry(C0("proceed"), FALSE, epoch)
        ELSE IF SaslActive /\ sel = Sel("auth")
        THEN Entry(C0("begin"), FALSE, epoch)
        ELSE IF SaslActive /\ sel \in {Sel("abort"), Sel("success")}
        THEN Entry(C0("aborted"), FALSE, epoch)
        ELSE IF BindActive /\ sel = Sel("iq/bind")
        THEN Entry(C0("bind"), FALSE, epoch)
        ELSE IF BindActive /\ sel = Sel("iq/session")
        THEN Entry(C0("start"), FALSE, epoch)
        ELSE stanzas[sel]]

\* State.activate, with one default plugin whose initializer does nothing:
\* it is stored in its slot (activate_group runs under the lock _after is
\* called with, so nothing is flushed here).
ActivatedDefault(sl) == sl \cup {"default"}
\* activate_one and activate_plugin (plugin.py lines 361-386) for the
\* default plugin when it declares handlers: instance i is made, its stanza
\* handler is bound with bind_stanza and its listener with bind.
DefaultStanzas(tbl, i) ==
    IF listening
    THEN [tbl EXCEPT ![Sel("presence")] = Entry(D(i), FALSE, epoch)]
    ELSE tbl
DefaultLists(ls, i) ==
    IF listening THEN Bound(ls, gen, PluginEvent, D(i), FALSE) ELSE ls
Made(n) == IF listening THEN n + 1 ELSE n

\* send_features returns whether the features are still to be negotiated.
FeaturesPending == ~authJID

\* ServerCore._after, lines 701-702.
AfterFeatures ==
    /\ At("_after", "features")
    /\ slots' = LET sl == IF SaslActive THEN WithMechs(slots) ELSE slots
              IN IF FeaturesPending THEN sl ELSE ActivatedDefault(sl)
    /\ IF FeaturesPending
       THEN /\ stanzas' = FeatureStanzas
            /\ UNCHANGED <<lists, instances>>
       ELSE /\ stanzas' = DefaultStanzas(FeatureStanzas, instances + 1)
            /\ lists' = DefaultLists(lists, instances + 1)
            /\ instances' = Made(instances)
    /\ DoRun(WriteJob(Offer(TlsActive, SaslActive, BindActive)), Below)
    /\ UNCHANGED <<gen, coreVars, rsVars, exc, cntVars, iqlook, mark>>
    /\ UNCHANGED extVars
    /\ UNCHANGED <<listening, farVars>>

\* Plugin.activate_plugins (plugin.py lines 601-603): State.activate.  The
\* method runs under the State lock, so the lock activate_group takes
\* flushes nothing when it is left.
HActivate ==
    /\ InPlugin
    /\ nops' = nops + 1
    /\ slots' = ActivatedDefault(slots)
    /\ stanzas' = DefaultStanzas(stanzas, instances + 1)
    /\ lists' = DefaultLists(lists, instances + 1)
    /\ instances' = Made(instances)
    /\ UNCHANGED <<locked, schedule, gen, coreVars, rsVars, ctlVars, ninputs,
                   nfail, nextIq, ghostVars, extVars, listening, farVars>>

\* A method of the default plugin returns.
DReturn ==
    /\ At("d", "start")
    /\ stack' = Below
    /\ UNCHANGED <<stateVars, coreVars, rsVars, exc, cntVars, ghostVars,
                   extVars, auxVars>>

\* ServerCore.handle_close_stream, lines 712-719.
CloseTrigger ==
    /\ At("handle_close_stream", "start")
    /\ stack' = StartTrigger("ReceivedCloseStream", Goto("close"))
    /\ UNCHANGED <<stateVars, coreVars, rsVars, exc, cntVars, ghostVars>>
    /\ UNCHANGED extVars
    /\ UNCHANGED auxVars

CloseAfter ==
    /\ At("handle_close_stream", "close")
    /\ IF ~stream
       THEN /\ exc' = "Error"
            /\ stack' = Below
            /\ UNCHANGED <<locked, schedule, cbcalls, closeCb, timer>>
       ELSE /\ closeCb' = TRUE
            /\ timer' = (timer \/ root)
            /\ exc' = exc
            /\ CloseCall(Below)
    /\ UNCHANGED <<lists, gen, stanzas, slots, coreVars, socket, wire,
                   cntVars, iqlook, mark>>
    /\ UNCHANGED extVars
    /\ UNCHANGED auxVars

\* ------------------------------------------------------------ Core handlers
\* Core.info_query, lines 247-272.
Lookup(el) == IF el.ty = "result" THEN IqIdent(el.id) ELSE Sel("iq/" \o el.child)

InfoQuery ==
    /\ At("info_query", "start")
    /\ LET el == Top.c.el
           sel == Lookup(el)
       IN IF ~authJID
          THEN /\ stack' = Below \o <<ErrorFrame("not-authorized")>>
               /\ UNCHANGED <<locked, schedule, stanzas, ghostVars>>
          ELSE IF el.ty = "error"
          THEN /\ stack' = Below
               /\ UNCHANGED <<locked, schedule, stanzas, ghostVars>>
          ELSE IF el.ty # "result" /\ el.child = "none"
          THEN /\ DoRun(WriteJob("iqerror"), Below)
               /\ UNCHANGED <<stanzas, iqlook, mark>>
          ELSE /\ iqlook' = IF el.ty = "result"
                            THEN [iqlook EXCEPT ![el.id] =
                                     Append(@, IsStanza(sel))]
                            ELSE iqlook
               /\ IF IsStanza(sel)
                  THEN /\ stanzas' = Taken(sel)
                       /\ DoRun(WithElem(stanzas[sel].c, el), Below)
                  ELSE /\ DoRun(WriteJob("iqerror"), Below)
                       /\ UNCHANGED stanzas
    /\ UNCHANGED <<lists, gen, slots, coreVars, rsVars, exc, cntVars, mark>>
    /\ UNCHANGED extVars
    /\ UNCHANGED auxVars

\* Core.handle_error, lines 170-179.
HandleErrorTrigger ==
    /\ At("handle_error", "start")
    /\ stack' = StartTrigger("ReceivedError", Goto("clear"))
    /\ UNCHANGED <<stateVars, coreVars, rsVars, exc, cntVars, ghostVars>>
    /\ UNCHANGED extVars
    /\ UNCHANGED auxVars

HandleErrorClear ==
    /\ At("handle_error", "clear")
    /\ lists' = ClearedLists(stack)
    /\ gen' = ClearedGen(stack)
    /\ stanzas' = ClearedStanzas(stanzas)
    /\ slots' = {}
    /\ schedule' = Enqueue(<<>>, C0("close_stream"))
    /\ locked' = TRUE
    /\ stack' = Goto("close") \o <<FlushFrame>>
    /\ UNCHANGED <<coreVars, rsVars, exc, cntVars, ghostVars>>
    /\ UNCHANGED extVars
    /\ UNCHANGED auxVars

HandleErrorClose ==
    /\ At("handle_error", "close")
    /\ CoreClose(Below)
    /\ stack' = Below
    /\ UNCHANGED <<root, authJID, epoch, popen, closeCb, timer, wire, exc,
                   cntVars, ghostVars>>
    /\ UNCHANGED <<secured, handshake, wb, stalls, closing>>
    /\ UNCHANGED auxVars

\* ------------------------------------------------------------ TLS
\* TLS.proceed, lines 420-421: <proceed/> is written; the handshake starts
\* when the write buffer has taken it to the socket.
TlsProceed ==
    /\ At("proceed", "start")
    /\ DoRun(WriteJob("proceed"), Below)
    /\ UNCHANGED <<lists, gen, stanzas, slots, coreVars, rsVars, exc,
                   cntVars, iqlook, mark>>
    /\ UNCHANGED extVars
    /\ UNCHANGED auxVars

\* The handshake succeeds: ReadStream.starttls's success() (lines 92-95)
\* takes the wrapped socket and calls TLS.done (lines 441-443), which marks
\* the connection secured and calls Core._reset from the reactor.
TlsDone ==
    /\ Idle
    /\ handshake
    /\ handshake' = FALSE
    /\ socket' = TRUE
    /\ secured' = "True"
    /\ stack' = <<Frame(C0("_reset"))>>
    /\ UNCHANGED <<stateVars, coreVars, closeCb, timer, wire, exc, cntVars,
                   ghostVars, wb, wcb, stalls, closing>>
    /\ UNCHANGED auxVars

\* The handshake fails: failure() (lines 97-99) takes the socket back and
\* closes the stream.
TlsFail ==
    /\ Idle
    /\ handshake
    /\ handshake' = FALSE
    /\ socket' = FALSE
    /\ IF closeCb /\ stream
       THEN StateClear(stack) /\ stream' = FALSE
       ELSE UNCHANGED <<stateVars, stream>>
    /\ UNCHANGED <<root, authJID, epoch, popen, closeCb, timer, wire, ctlVars,
                   cntVars, ghostVars, secured, wb, wcb, stalls, closing>>
    /\ UNCHANGED auxVars

\* ------------------------------------------------------------ SASL
\* SASL.begin, lines 467-477, and SASL.challenge_loop, lines 479-487: what
\* is written first.  begin refuses a mechanism that mechanisms() does not
\* list.
Refused(el) == Top.k = "begin" /\ el.child \notin Allowed(slots)
SaslStart ==
    /\ At("begin", "start") \/ At("challenge_loop", "start")
    /\ LET el == Top.c.el
           r == IF Refused(el) THEN "invalid" ELSE el.r
       IN /\ stanzas' = IF r = "challenge"
                        THEN [stanzas EXCEPT ![Sel("response")] =
                                 Entry(C0("challenge_loop"), FALSE, epoch)]
                        ELSE stanzas
          /\ slots' = IF Top.k = "begin" THEN WithMechs(slots) ELSE slots
          /\ DoRun(WriteJob(IF r = "invalid" THEN "failure"
                            ELSE IF r = "failure" THEN "abort" ELSE r),
                   IF r = "challenge" THEN Below
                   ELSE IF r = "success" THEN Goto("success")
                   ELSE Goto("close"))
    /\ UNCHANGED <<lists, gen, coreVars, rsVars, exc, cntVars, iqlook, mark>>
    /\ UNCHANGED extVars
    /\ UNCHANGED auxVars

\* SASL.failure / SASL.abort after the write, and the handlers SASL.failed
\* and SASL.aborted: self.core.close().
SaslClose ==
    /\ \/ At("begin", "close")
       \/ At("challenge_loop", "close")
       \/ At("aborted", "start")
    /\ CloseCall(Below)
    /\ closing' = (closing \/ (stream /\ root))
    /\ UNCHANGED <<lists, gen, stanzas, slots, coreVars, rsVars, exc,
                   cntVars, iqlook, mark, netVars>>
    /\ UNCHANGED auxVars

\* SASL.success, lines 546-549: the peer is authorized and the core is
\* reset, by a direct call of Core._reset.
Unauthorized(jid) == jid
\* SASL.success, line 547: core.authJID is the entity the mechanism reports.
Authorized(jid) == TRUE
SaslSuccess ==
    /\ At("begin", "success") \/ At("challenge_loop", "success")
    /\ authJID' = Authorized(authJID)
    /\ stack' = Goto("done") \o <<Frame(C0("_reset"))>>
    /\ UNCHANGED <<stateVars, root, stream, epoch, popen, rsVars, exc,
                   cntVars, ghostVars>>
    /\ UNCHANGED extVars
    /\ UNCHANGED auxVars

SaslReturn ==
    /\ At("begin", "done") \/ At("challenge_loop", "done")
    /\ stack' = Below
    /\ UNCHANGED <<stateVars, coreVars, rsVars, exc, cntVars, ghostVars>>
    /\ UNCHANGED extVars
    /\ UNCHANGED auxVars

\* Bind.bind (lines 588-592) and Session.start (line 626): the result iq is
\* written; Bind.bind asserts that the request is a set.
BindOrSession ==
    /\ At("bind", "start") \/ At("start", "start")
    /\ DoRun(WriteJob(IF Top.k = "bind" THEN "bound" ELSE "session"), Below)
    /\ UNCHANGED <<lists, gen, stanzas, slots, coreVars, rsVars, exc,
                   cntVars, iqlook, mark>>
    /\ UNCHANGED extVars
    /\ UNCHANGED auxVars

\* Bind.bind, lines 589-593, on a server whose Resources other sessions
\* share: Resources.bind picks the resource, and the IQError of _bind
\* leaves Bind.bind before authJID is set or anything is written.
BindIq ==
    /\ At("bind", "start")
    /\ \E r \in ResourceIds :
         LET jid == JidResource(coreJID[Self], r)
         IN IF Conflict(Tables, Self, jid)
            THEN /\ stack' = Below
                 /\ exc' = "Error"
                 /\ refused' = TRUE
                 /\ UNCHANGED <<locked, schedule, cbcalls, resVars>>
            ELSE /\ bound' = Registered(Tables, Self, coreJID[Self], jid).bound
                 /\ routes' = Registered(Tables, Self, coreJID[Self], jid).routes
                 /\ coreJID' = [coreJID EXCEPT ![Self] = jid]
                 /\ DoRun(WriteJob("bound"), Below)
                 /\ UNCHANGED <<exc, refused>>
    /\ UNCHANGED <<lists, gen, stanzas, slots, coreVars, rsVars, cntVars,
                   iqlook, mark, extVars, actVars, got, hs, ioVars, xs, app>>

\* Session.start, line 626.
SessionStart == At("start", "start") /\ BindOrSession

\* ------------------------------------------------------------ plugins
\* The application has one plugin, activated when the peer opens its
\* stream: it handles <message/> with method 1 and the iq child <ping/>
\* with method 2, and listens to PluginEvent with method 2.
PluginInit == [k |-> "h", id |-> 0]
PluginStanzas ==
    [stanzas EXCEPT ![Sel("msg")] = Entry(H(1), FALSE, epoch),
                    ![Sel("iq/ping")] = Entry(H(2), FALSE, epoch)]

\* CompiledPlugins.activate_group, lines 351-359: under the lock, the plugin
\* is made (its __init__ runs) ...
ActivateMake ==
    /\ At("activate_group", "start")
    /\ locked' = TRUE
    /\ stack' = Below \o <<LockFrame("lock", locked),
                           [Top EXCEPT !.pc = "made"], Frame(PluginInit)>>
    /\ UNCHANGED <<schedule, lists, gen, stanzas, slots, coreVars, rsVars,
                   exc, cntVars, ghostVars>>
    /\ UNCHANGED extVars
    /\ UNCHANGED auxVars

\* ... then stored in its slot and its declared handlers are bound
\* (activate_one, activate_plugin, lines 361-386).
ActivateBind ==
    /\ At("activate_group", "made")
    /\ slots' = slots \cup {"plugin"}
    /\ stanzas' = PluginStanzas
    /\ lists' = Bound(lists, gen, PluginEvent, H(2), FALSE)
    /\ stack' = Below
    /\ UNCHANGED <<locked, schedule, gen, coreVars, rsVars, exc, cntVars,
                   ghostVars>>
    /\ UNCHANGED extVars
    /\ UNCHANGED auxVars

\* ------------------------------------------------------------ exceptions
Raised == Depth > 0 /\ exc # "none"

\* The exception leaves a `with state.lock()' block: the finally clause of
\* State.lock runs, or the flush it made has itself raised.
UnwindLock ==
    /\ Raised
    /\ Top.k \in {"run", "lock"}
    /\ IF Top.pc = "call"
       THEN LockExit(exc)
       ELSE /\ stack' = Below
            /\ UNCHANGED <<locked, exc>>
    /\ UNCHANGED <<schedule, lists, gen, stanzas, slots, coreVars, rsVars,
                   cntVars, ghostVars>>
    /\ UNCHANGED extVars
    /\ UNCHANGED auxVars

\* State.flush, lines 166-167: finally locked = False.  The jobs that were
\* not reached stay in the queue.
UnwindFlush ==
    /\ Raised
    /\ Top.k = "flush"
    /\ locked' = FALSE
    /\ stack' = Below
    /\ UNCHANGED <<schedule, lists, gen, stanzas, slots, coreVars, rsVars,
                   exc, cntVars, ghostVars>>
    /\ UNCHANGED extVars
    /\ UNCHANGED auxVars

\* Core.error, lines 165-166: whatever is raised while reporting is logged.
ErrorSwallow ==
    /\ Raised
    /\ Top.k = "error"
    /\ exc' = "none"
    /\ stack' = Goto("failed")
    /\ UNCHANGED <<stateVars, coreVars, rsVars, cntVars, ghostVars>>
    /\ UNCHANGED extVars
    /\ UNCHANGED auxVars

\* Core._read, lines 328-333: an exception of the parser or of a handler
\* becomes a stream error.
ReadCatch ==
    /\ Raised
    /\ Top.k = "_read"
    /\ exc' = "none"
    /\ stack' = stack \o <<ErrorFrame("internal-server-error")>>
    /\ UNCHANGED <<stateVars, coreVars, rsVars, cntVars, ghostVars>>
    /\ UNCHANGED extVars
    /\ UNCHANGED auxVars

\* Any other method is left by the exception.
Unwind ==
    /\ Raised
    /\ Top.k \notin {"run", "lock", "flush", "error", "_read"}
    /\ stack' = Below
    /\ lists' = IF Top.k = "trigger" /\ Top.x.g # gen[Top.x.ev]
                   /\ ~InUse(Top.x.ev, Top.x.g, Below)
                THEN [lists EXCEPT ![Top.x.ev][Top.x.g] = <<>>]
                ELSE lists
    /\ UNCHANGED <<locked, schedule, gen, stanzas, slots, coreVars, rsVars,
                   exc, cntVars, ghostVars>>
    /\ UNCHANGED extVars
    /\ UNCHANGED auxVars

\* ------------------------------------------------------------ the reactor
ReadFrame == Fr("_read", "start", None, NoX)
\* ReadStream delivers bytes while its socket is open; Core._read drops them
\* once the stream is gone (line 323).
\* shutdown() removes the reader (line 55).
Reading == wcb # "close"
CanRead ==
    /\ Idle /\ socket /\ Reading /\ stream
    /\ ninputs < MaxInputs
    /\ ninputs + nops < MaxWork

\* <stream:stream ...> is parsed: the target calls handle_open_stream.
RecvOpenStream ==
    /\ CanRead
    /\ popen = "none"
    /\ ninputs' = ninputs + 1
    /\ popen' = "open"
    /\ stack' = <<ReadFrame, Fr("handle_open_stream", "start", None, NoX)>>
    /\ UNCHANGED <<stateVars, root, stream, authJID, epoch, rsVars, exc,
                   nops, nfail, nextIq, ghostVars>>
    /\ UNCHANGED extVars
    /\ UNCHANGED auxVars

\* A child of the stream element is parsed: the target refuses a name that
\* is not a stanza; ServerCore.handle_stanza (lines 704-710) dispatches the
\* element with State.trigger_stanza.
RecvStanza ==
    /\ CanRead
    /\ popen = "open"
    /\ ninputs' = ninputs + 1
    /\ \E el \in InStanzas :
        IF TargetAccepts(el)
        THEN /\ stanzas' = Taken(Sel(el.s))
             /\ DoRun(WithElem(stanzas[Sel(el.s)].c, el), <<ReadFrame>>)
        ELSE /\ stack' = <<ReadFrame, ErrorFrame("unsupported-stanza-type")>>
             /\ UNCHANGED <<locked, schedule, stanzas, cbcalls>>
    /\ UNCHANGED <<lists, gen, slots, coreVars, rsVars, exc, nops, nfail,
                   nextIq, iqlook, mark>>
    /\ UNCHANGED extVars
    /\ UNCHANGED auxVars

\* </stream:stream> is parsed.
RecvCloseStream ==
    /\ CanRead
    /\ popen = "open"
    /\ ninputs' = ninputs + 1
    /\ popen' = "closed"
    /\ stack' = <<ReadFrame, Fr("handle_close_stream", "start", None, NoX)>>
    /\ UNCHANGED <<stateVars, root, stream, authJID, epoch, rsVars, exc,
                   nops, nfail, nextIq, ghostVars>>
    /\ UNCHANGED extVars
    /\ UNCHANGED auxVars

\* The bytes are not well-formed XMPP: the parser raises.
RecvBadXml ==
    /\ CanRead
    /\ ninputs' = ninputs + 1
    /\ stack' = <<ReadFrame, ErrorFrame("bad-format")>>
    /\ UNCHANGED <<stateVars, coreVars, rsVars, exc, nops, nfail, nextIq,
                   ghostVars>>
    /\ UNCHANGED extVars
    /\ UNCHANGED auxVars

\* Core._read returns to the reactor.
ReadReturn ==
    /\ At("_read", "start")
    /\ stack' = Below
    /\ UNCHANGED <<stateVars, coreVars, rsVars, exc, cntVars, ghostVars>>
    /\ UNCHANGED extVars
    /\ UNCHANGED auxVars

\* The timeout set by handle_close_stream fires: ReadStream.shutdown, lines
\* 50-62, which closes the socket only when the write buffer is empty.
TimerFire ==
    /\ Idle
    /\ timer
    /\ timer' = FALSE
    /\ IF socket /\ wb
       THEN wcb' = "close" /\ UNCHANGED <<stateVars, socket, stream>>
       ELSE wcb' = wcb /\ RsClose(stack)
    /\ UNCHANGED <<root, authJID, epoch, popen, closeCb, wire, ctlVars,
                   cntVars, ghostVars>>
    /\ UNCHANGED <<secured, handshake, wb, stalls, closing>>
    /\ UNCHANGED auxVars

\* The socket becomes writable while bytes are buffered: _handle calls
\* _write (lines 117-120), which empties the buffer and runs the write
\* callback, or finds a socket error.
Writable ==
    /\ Idle
    /\ socket
    /\ wb
    /\ \/ Drained(wcb, stack)
       \/ nfail < MaxFail /\ WriteFailed(stack)
    /\ UNCHANGED <<root, authJID, epoch, popen, closeCb, timer, wire, ctlVars,
                   nops, ninputs, nextIq, ghostVars, secured, closing>>
    /\ UNCHANGED auxVars

\* The peer closes the connection: recv() returns no bytes and _read calls
\* ReadStream.close (lines 141-143).
PeerClose ==
    /\ Idle
    /\ socket
    /\ RsClose(stack)
    /\ UNCHANGED <<root, authJID, epoch, popen, closeCb, timer, wire, ctlVars,
                   cntVars, ghostVars, extVars>>
    /\ UNCHANGED auxVars

\* ------------------------------------------------------------ specification
Next ==
    \/ RunReturn \/ RunFin \/ FlushStep
    \/ TriggerStep \/ TriggerReturn
    \/ DoWrite \/ DoOpenStream \/ DoCloseStream \/ DoReset \/ DoClose
    \/ ResetFlush \/ ResetClear \/ ResetReturn
    \/ ErrorBegin \/ ErrorClose \/ ErrorReturn
    \/ HWrite \/ HOpenStream \/ HCloseStream \/ HReset \/ HClose \/ HSequence
    \/ HBind \/ HUnbind \/ HTrigger \/ HIq \/ HError \/ HReturn \/ HRaise
    \/ OpenTrigger \/ OpenAfter \/ AfterOpen \/ AfterFeatures
    \/ CloseTrigger \/ CloseAfter
    \/ InfoQuery
    \/ HandleErrorTrigger \/ HandleErrorClear \/ HandleErrorClose
    \/ SaslStart \/ SaslClose \/ SaslSuccess \/ SaslReturn
    \/ BindOrSession
    \/ ActivateMake \/ ActivateBind
    \/ UnwindLock \/ UnwindFlush \/ ErrorSwallow \/ ReadCatch \/ Unwind
    \/ RecvOpenStream \/ RecvStanza \/ RecvCloseStream \/ RecvBadXml
    \/ ReadReturn \/ TimerFire

Spec == Init /\ [][Next]_vars

\* The same server given a certificate, a key and an auth provider, behind
\* a socket that may refuse bytes; the plugin's methods only return.
InitTls ==
    /\ locked = FALSE
    /\ schedule = <<>>
    /\ lists = [e \in Events |-> <<InstalledLists(0)[e]>>]
    /\ gen = [e \in Events |-> 1]
    /\ stanzas = CoreStanzas(0)
    /\ slots = {}
    /\ root = FALSE
    /\ stream = TRUE
    /\ authJID \in BOOLEAN
    /\ epoch = 0
    /\ popen = "none"
    /\ socket = TRUE
    /\ closeCb = FALSE
    /\ timer = FALSE
    /\ wire = <<>>
    /\ stack = <<>>
    /\ exc = "none"
    /\ nops = 0
    /\ ninputs = 0
    /\ nfail = 0
    /\ nextIq = 1
    /\ cbcalls = [n \in 1..(MaxIq + 1) |-> 0]
    /\ iqlook = [n \in 1..(MaxIq + 1) |-> <<>>]
    /\ mark = [st |-> 0, x |-> 0, c |-> 0, open |-> FALSE]
    /\ secured = "None"
    /\ handshake = FALSE
    /\ wb = FALSE
    /\ wcb = "none"
    /\ stalls = MaxStall
    /\ closing = FALSE
    /\ AuxInit

NextTls ==
    \/ RunReturn \/ RunFin \/ FlushStep
    \/ TriggerStep \/ TriggerReturn
    \/ DoWrite \/ DoOpenStream \/ DoCloseStream \/ DoClose
    \/ ResetFlush \/ ResetClear \/ ResetReturn
    \/ ErrorBegin \/ ErrorClose \/ ErrorReturn
    \/ HReturn
    \/ OpenTrigger \/ OpenAfter \/ AfterOpen \/ AfterFeatures
    \/ CloseTrigger \/ CloseAfter
    \/ InfoQuery
    \/ HandleErrorTrigger \/ HandleErrorClear \/ HandleErrorClose
    \/ TlsProceed \/ TlsDone \/ TlsFail
    \/ SaslStart \/ SaslClose \/ SaslSuccess \/ SaslReturn
    \/ BindOrSession
    \/ ActivateMake \/ ActivateBind
    \/ UnwindLock \/ UnwindFlush \/ ErrorSwallow \/ ReadCatch \/ Unwind
    \/ RecvOpenStream \/ RecvStanza \/ RecvCloseStream \/ RecvBadXml
    \/ ReadReturn \/ TimerFire \/ PeerClose \/ Writable

SpecTls == InitTls /\ [][NextTls]_vars

\* The server of Spec with an application whose default plugin declares a
\* stanza handler and a listener, and whose plugin methods may activate the
\* default plugins themselves.
InitAct ==
    /\ locked = FALSE
    /\ schedule = <<>>
    /\ lists = [e \in Events |-> <<InstalledLists(0)[e]>>]
    /\ gen = [e \in Events |-> 1]
    /\ stanzas = CoreStanzas(0)
    /\ slots = {}
    /\ root = FALSE
    /\ stream = TRUE
    /\ authJID \in BOOLEAN
    /\ epoch = 0
    /\ popen = "none"
    /\ socket = TRUE
    /\ closeCb = FALSE
    /\ timer = FALSE
    /\ wire = <<>>
    /\ stack = <<>>
    /\ exc = "none"
    /\ nops = 0
    /\ ninputs = 0
    /\ nfail = 0
    /\ nextIq = 1
    /\ cbcalls = [n \in 1..(MaxIq + 1) |-> 0]
    /\ iqlook = [n \in 1..(MaxIq + 1) |-> <<>>]
    /\ mark = [st |-> 0, x |-> 0, c |-> 0, open |-> FALSE]
    /\ secured = "False"
    /\ handshake = FALSE
    /\ wb = FALSE
    /\ wcb = "none"
    /\ stalls = 0
    /\ closing = FALSE
    /\ listening = TRUE
    /\ instances = 0
    /\ OwnedInit
    /\ refused = FALSE
    /\ got = NoCall
    /\ hs = NoElem
    /\ RsInit
    /\ ParserInit
    /\ TablesInit

NextAct ==
    \/ RunReturn \/ RunFin \/ FlushStep
    \/ TriggerStep \/ TriggerReturn
    \/ DoWrite \/ DoOpenStream \/ DoCloseStream \/ DoClose
    \/ ErrorBegin \/ ErrorClose \/ ErrorReturn
    \/ HActivate \/ HReturn \/ DReturn
    \/ OpenTrigger \/ OpenAfter \/ AfterOpen \/ AfterFeatures
    \/ CloseTrigger \/ CloseAfter
    \/ InfoQuery
    \/ SaslStart \/ SaslClose \/ SaslSuccess \/ SaslReturn
    \/ ResetFlush \/ ResetClear \/ ResetReturn
    \/ BindIq \/ SessionStart
    \/ ActivateMake \/ ActivateBind
    \/ UnwindLock \/ UnwindFlush \/ ErrorSwallow \/ ReadCatch \/ Unwind
    \/ RecvOpenStream \/ RecvStanza \/ RecvCloseStream \/ RecvBadXml
    \/ ReadReturn \/ TimerFire

SpecAct == InitAct /\ [][NextAct]_vars

\* ------------------------------------------------------------ Resources
\* A client authenticates on a new connection: SASL.success sets
\* core.authJID to a JID without resource (core.py line 547).
Login(s, b) ==
    /\ coreJID[s] = NoJid
    /\ coreJID' = [coreJID EXCEPT ![s] = Jid(b, "")]
    /\ UNCHANGED <<bound, routes>>

\* Bind.bind (core.py lines 589-593) with Resources.bind (state.py lines
\* 212-217): r is md5 of the requested name and 32 random bits.  When _bind
\* raises, core.authJID keeps its value.
ResBind(s, r) ==
    /\ coreJID[s] # NoJid
    /\ LET jid == JidResource(coreJID[s], r)
       IN IF Conflict(Tables, s, jid)
          THEN UNCHANGED resVars
          ELSE /\ bound' = Registered(Tables, s, coreJID[s], jid).bound
               /\ routes' = Registered(Tables, s, coreJID[s], jid).routes
               /\ coreJID' = [coreJID EXCEPT ![s] = jid]

\* Resources.bound(jid, core), state.py lines 215-218, for a jid object
\* of the session's own account.
ResBound(s, jid) ==
    /\ coreJID[s] # NoJid
    /\ jid.bare = coreJID[s].bare
    /\ ~Conflict(Tables, s, jid)
    /\ bound' = Registered(Tables, s, JidResource(jid, ""), jid).bound
    /\ routes' = Registered(Tables, s, JidResource(jid, ""), jid).routes
    /\ UNCHANGED coreJID

\* Resources.unbind(jid) called for a JID that has an entry.
ResUnbind(jid) ==
    /\ bound[jid] # 0
    /\ bound' = Removed(Tables, jid).bound
    /\ routes' = Removed(Tables, jid).routes
    /\ UNCHANGED coreJID

\* The last reference to a core is dropped: the callback of each weak
\* reference held in _bound unbinds its key.
Expire(s) ==
    /\ coreJID[s] # NoJid
    /\ LET t == RemovedAll(Tables, {j \in FullJids : bound[j] = s})
       IN bound' = t.bound /\ routes' = t.routes
    /\ coreJID' = [coreJID EXCEPT ![s] = NoJid]

\* Resources.routes(jid), state.py lines 242-267, as the set of (jid,
\* session) pairs it returns; the empty set stands for NoRoute.
Routes(t, jid) ==
    IF is_full_jid(jid)
    THEN IF t.bound[jid] = 0 THEN {} ELSE {<<jid, t.bound[jid]>>}
    ELSE {<<j, t.bound[j]>> : j \in {x \in t.routes[jid] : t.bound[x] # 0}}

\* The methods of a Core (core.py lines 22-335) that Plugin._transmit may
\* ask for by name: Core has write, and no attribute called handle.
CoreHas(method) == method = "write"

\* Plugin.send and Plugin.recv (plugin.py lines 474-478) with _transmit
\* (lines 558-570): the method is looked up on each route in turn.  The
\* routes are the cores Bind.bind registered (core.py line 591), so the
\* lookup of a missing method raises AttributeError at the first route.
Transmit(method, where) ==
    /\ \E s \in Sessions : coreJID[s] # NoJid
    /\ got' = [m |-> method, to |-> where,
               n |-> [s \in Sessions |->
                        IF CoreHas(method)
                        THEN Cardinality({rt \in Routes(Tables, where) : rt[2] = s})
                        ELSE 0]]
    /\ UNCHANGED resVars

\* Sessions of one server come, bind resources and go; the connection of
\* Spec stays idle.
InitRes == Init /\ ~authJID

NextRes ==
    \/ \E s \in Sessions, b \in Bares : Login(s, b) /\ got' = NoCall /\ UNCHANGED <<connVars, actVars, refused, hs, ioVars, xs, app>>
    \/ \E s \in Sessions, r \in ResourceIds : ResBind(s, r) /\ got' = NoCall /\ UNCHANGED <<connVars, actVars, refused, hs, ioVars, xs, app>>
    \/ \E s \in Sessions, j \in FullJids : ResBound(s, j) /\ got' = NoCall /\ UNCHANGED <<connVars, actVars, refused, hs, ioVars, xs, app>>
    \/ \E j \in FullJids : ResUnbind(j) /\ got' = NoCall /\ UNCHANGED <<connVars, actVars, refused, hs, ioVars, xs, app>>
    \/ \E s \in Sessions : Expire(s) /\ got' = NoCall /\ UNCHANGED <<connVars, actVars, refused, hs, ioVars, xs, app>>

SpecRes == InitRes /\ [][NextRes]_vars

\* The sessions of the server bind resources and go while plugins send to
\* the accounts and let them receive.
NextSend ==
    \/ \E s \in Sessions, b \in Bares : Login(s, b) /\ got' = NoCall /\ UNCHANGED <<connVars, actVars, refused, hs, ioVars, xs, app>>
    \/ \E s \in Sessions, r \in ResourceIds : ResBind(s, r) /\ got' = NoCall /\ UNCHANGED <<connVars, actVars, refused, hs, ioVars, xs, app>>
    \/ \E s \in Sessions : Expire(s) /\ got' = NoCall /\ UNCHANGED <<connVars, actVars, refused, hs, ioVars, xs, app>>
    \/ \E m \in {"handle", "write"}, b \in BareJids :
           Transmit(m, b) /\ UNCHANGED <<connVars, actVars, refused, hs, ioVars, xs, app>>

SpecSend == InitRes /\ [][NextSend]_vars

\* ------------------------------------------------------------ handle_stanza
\* ServerCore.handle_stanza, lines 704-710, for a session whose authJID is
\* auth (NoJid: not authorized) and an element whose from attribute is from
\* (NoJid: none).  The attribute is compared with authJID by text
\* (jid.__eq__); a failed assert raises AssertionError before the element
\* is touched; otherwise the element, stamped where it had no from, goes to
\* State.trigger_stanza.
HandleStanzaUnchecked(auth, from) ==
    [out |-> "dispatched",
     from |-> IF auth # NoJid /\ from = NoJid THEN auth ELSE from]
HandleStanza(auth, from) ==
    IF auth # NoJid /\ from # NoJid /\ from # auth
    THEN [out |-> "AssertionError", from |-> from]
    ELSE [out |-> "dispatched",
          from |-> IF auth # NoJid /\ from = NoJid THEN auth ELSE from]

\* The parser hands a stanza to a session.
StanzaTags == {"message", "presence", "iq"}
Arrive ==
    /\ hs.out # "arrived"
    /\ \E t \in StanzaTags, f \in Jids \cup {NoJid}, a \in Jids \cup {NoJid} :
         hs' = [tag |-> t, from |-> f, auth |-> a, out |-> "arrived",
                fwd |-> NoJid]
    /\ UNCHANGED <<connVars, actVars, resVars, refused, got, ioVars, xs, app>>

Handle ==
    /\ hs.out = "arrived"
    /\ hs' = [hs EXCEPT !.out = HandleStanza(hs.auth, hs.from).out,
                        !.fwd = HandleStanza(hs.auth, hs.from).from]
    /\ UNCHANGED <<connVars, actVars, resVars, refused, got, ioVars, xs, app>>

NextFrom == Arrive \/ Handle

SpecFrom == InitRes /\ [][NextFrom]_vars

\* ------------------------------------------------------------ ReadStream bytes
\* The stream and its surroundings as one value, so that the calls a
\* method makes can be composed.
Here == [rs |-> rs, net |-> net]

\* The n-th write is given len bytes, each unlike any other.
Bytes(n, len) == [i \in 1..len |-> 10 * n + i]

\* ReadStream.close, lines 64-72.
StreamClose(p) ==
    IF p.rs.socket = "open" THEN [p EXCEPT !.rs.socket = "closed"] ELSE p

\* ReadStream.starttls, lines 80-105: deferred while the write buffer
\* holds bytes; otherwise aio.starttls takes the descriptor and
\* self.socket is None until the handshake is over.
StreamStartTlsEager(p) ==
    [p EXCEPT !.rs.socket = "tls", !.net.tls = "handshake"]
StreamStartTls(p) ==
    IF p.rs.wb # <<>>
    THEN [p EXCEPT !.rs.wcb = StartTlsCb]
    ELSE [p EXCEPT !.rs.socket = "tls", !.net.tls = "handshake"]

\* The call of the write callback, _write line 161.
StreamInvoke(p, cb) ==
    IF cb.k = "done" THEN [p EXCEPT !.net.calls[cb.n] = @ + 1]
    ELSE IF cb.k = "close" THEN StreamClose(p)
    ELSE IF cb.k = "starttls" THEN StreamStartTls(p)
    ELSE p

\* self._wb[sent:], line 151.
RestKept(buf, k) == SubSeq(buf, IF k > 0 THEN k ELSE 1, Len(buf))
Rest(buf, k) == SubSeq(buf, k + 1, Len(buf))

\* ReadStream._write, lines 146-162: the socket takes k bytes of the
\* buffer over the rounds of the loop; if bytes remain, the last send()
\* would block, or failed (err) and the stream is closed; once the buffer
\* is empty the write callback is taken and called.
StreamWriteLoop(p, k, err) ==
    LET q == [p EXCEPT !.net.sent = @ \o SubSeq(p.rs.wb, 1, k),
                       !.rs.wb = Rest(@, k)]
    IN IF q.rs.wb # <<>>
       THEN IF err THEN StreamClose(q) ELSE q
       ELSE IF q.rs.wcb # NoCb
            THEN StreamInvoke([q EXCEPT !.rs.wcb = NoCb], q.rs.wcb)
            ELSE q

\* ReadStream.write, lines 40-48, with data that is not empty.
StreamWrite(p, data, cb, k, err) ==
    StreamWriteLoop([p EXCEPT !.rs.wb = @ \o data, !.rs.wcb = cb], k, err)

\* The events _handle asks the reactor for, lines 122-126 (besides ERROR).
Interest(r) ==
    (IF r.reader THEN {"READ"} ELSE {}) \cup (IF r.wb # <<>> THEN {"WRITE"} ELSE {})

Elsewhere == <<connVars, actVars, resVars, refused, got, hs, xs, app>>

\* ReadStream.read, lines 30-38, and _add_io_state, lines 164-170.
CallRead ==
    /\ rs.socket = "open"
    /\ ~rs.reader
    /\ rs' = [rs EXCEPT !.reader = TRUE, !.state = @ \cup {"READ"}]
    /\ UNCHANGED <<net, Elsewhere>>

\* ReadStream.write(data, callback), called between two events of the
\* stream's own descriptor (by a timer, or by the handler of another
\* connection), with or without a callback.
CallWrite ==
    /\ rs.socket = "open"
    /\ net.nw < MaxWrites
    /\ \E len \in 1..MaxData, hascb \in BOOLEAN, err \in BOOLEAN :
       \E k \in 0..(Len(rs.wb) + len) :
         LET n == net.nw + 1
             p == [rs |-> rs,
                   net |-> [net EXCEPT !.nw = n,
                                       !.written = @ \o Bytes(n, len),
                                       !.cbs = IF hascb THEN @ \cup {n} ELSE @,
                                       !.ends[n] = Len(net.written) + len]]
             q == StreamWrite(p, Bytes(n, len),
                              IF hascb THEN Done(n) ELSE NoCb, k, err)
         IN rs' = q.rs /\ net' = q.net
    /\ UNCHANGED Elsewhere

\* ReadStream.shutdown, lines 50-62.
CallShutdown ==
    /\ rs.socket = "open"
    /\ LET p == [Here EXCEPT !.rs.reader = FALSE]
           q == IF p.rs.wb # <<>> THEN [p EXCEPT !.rs.wcb = CloseCb]
                ELSE StreamClose(p)
       IN rs' = q.rs /\ net' = q.net
    /\ UNCHANGED Elsewhere

\* ReadStream.close, lines 64-72.
CallClose ==
    /\ rs.socket = "open"
    /\ rs' = StreamClose(Here).rs
    /\ UNCHANGED <<net, Elsewhere>>

\* ReadStream.starttls(callback), lines 80-105.
CallStartTls ==
    /\ rs.socket = "open"
    /\ net.tls = "none"
    /\ rs' = StreamStartTls(Here).rs
    /\ net' = StreamStartTls(Here).net
    /\ UNCHANGED Elsewhere

\* ReadStream._handle, lines 107-128, and _read, lines 130-144, for the
\* events ev the reactor reports: those asked for, and ERROR.  recv()
\* returns a chunk, would block, or reports the end of the input (rd).  A
\* chunk met with no reader installed raises TypeError out of _handle
\* (line 144 calls self._reader, which is None); net.uncallable records it.
HandleEvents ==
    /\ rs.socket = "open"
    /\ \E ev \in (SUBSET {"READ", "WRITE", "ERROR"}) \ {{}},
          rd \in {"chunk", "block", "eof"}, err \in BOOLEAN :
       \E k \in 0..Len(rs.wb) :
         /\ ev \ {"ERROR"} \subseteq rs.state
         /\ LET raised == "READ" \in ev /\ rd = "chunk" /\ ~rs.reader
                p1 == IF "READ" \in ev /\ rd = "eof" THEN StreamClose(Here) ELSE Here
                p2 == IF p1.rs.socket = "open" /\ "WRITE" \in ev
                      THEN StreamWriteLoop(p1, k, err) ELSE p1
                p3 == IF p2.rs.socket = "open" /\ "ERROR" \in ev
                      THEN StreamClose(p2) ELSE p2
                p4 == IF p3.rs.socket = "open"
                      THEN [p3 EXCEPT !.rs.state = Interest(p3.rs)] ELSE p3
            IN IF raised
               THEN rs' = rs /\ net' = [net EXCEPT !.uncallable = TRUE]
               ELSE rs' = p4.rs /\ net' = p4.net
    /\ UNCHANGED Elsewhere

\* How line 101 of readstream.py binds the parameters of aio.starttls
\* (aio.py line 167: socket, handler, events, io, success, failure): the
\* closure `success' is given as handler, `failure' as events, and the
\* parameters success and failure keep their default, None.
TlsArgs == [handler |-> "success", events |-> "failure",
            success |-> "none", failure |-> "none"]

\* aio.starttls, done(), lines 177-181: the handler is installed and
\* success, if given, is called with the wrapped socket (ReadStream's
\* closure would install the socket and call the callback).
HandshakeDone ==
    /\ net.tls = "handshake"
    /\ IF TlsArgs.success = "success"
       THEN /\ rs' = [rs EXCEPT !.socket = "open"]
            /\ net' = [net EXCEPT !.tls = "done", !.tlscalls = @ + 1]
       ELSE /\ rs' = rs
            /\ net' = [net EXCEPT !.tls = "done"]
    /\ UNCHANGED Elsewhere

\* aio.starttls, error(), lines 183-190: failure, if given, is called
\* (ReadStream's closure would close the stream); otherwise the handler is
\* removed and the wrapped socket closed.
HandshakeError ==
    /\ net.tls = "handshake"
    /\ rs' = IF TlsArgs.failure = "failure"
             THEN [rs EXCEPT !.socket = "closed"] ELSE rs
    /\ net' = [net EXCEPT !.tls = "failed"]
    /\ UNCHANGED Elsewhere

NextRs ==
    \/ CallRead \/ CallWrite \/ CallShutdown \/ CallClose \/ CallStartTls
    \/ HandleEvents \/ HandshakeDone \/ HandshakeError

SpecRs == InitRes /\ [][NextRs]_vars

\* ------------------------------------------------------------ Parser
\* What a peer sends, character by character: "<" and ">" delimit tags,
\* the character behind "<" tells the tag ("?" the XML declaration, "s"
\* <stream:stream>, "/" an end tag, anything else another element), "w" is
\* text.
Decl == <<"<", "?", ">">>
OpenTag == <<"<", "s", "s", ">">>
Child == <<"<", "a", ">", "w", "<", "/", ">">>
Docs == {OpenTag \o Child, Decl \o OpenTag \o Child}

\* str.find: the first index of ch in buf, 0 if there is none.
Find(buf, ch) ==
    IF \E i \in 1..Len(buf) : buf[i] = ch
    THEN CHOOSE i \in 1..Len(buf) :
            buf[i] = ch /\ \A j \in 1..(i - 1) : buf[j] # ch
    ELSE 0

\* Parser.tokenize, xml.py lines 96-116, with stop unset: complete tags and
\* the text up to the next tag leave the buffer; an unfinished tag or text
\* stays in rb.
RECURSIVE Tokenize(_, _)
Tokenize(buf, toks) ==
    IF buf = <<>> THEN [toks |-> toks, rb |-> buf]
    ELSE IF buf[1] = "<"
    THEN LET idx == Find(buf, ">")
         IN IF idx = 0 THEN [toks |-> toks, rb |-> buf]
            ELSE Tokenize(SubSeq(buf, idx + 1, Len(buf)),
                          Append(toks, SubSeq(buf, 1, idx)))
    ELSE LET idx == Find(buf, "<")
         IN IF idx = 0 THEN [toks |-> toks, rb |-> buf]
            ELSE Tokenize(SubSeq(buf, idx, Len(buf)),
                          Append(toks, SubSeq(buf, 1, idx - 1)))

\* The target's start, xmppstream.py lines 361-373: below the root a child
\* is pushed (its name taken as a known stanza); the root must be
\* <stream:stream> and triggers ReceivedStreamOpen.
TargetStartAlways(t, name) ==
    IF t.peer > 0 THEN [t EXCEPT !.peer = @ + 1, !.opens = @ + 1]
    ELSE IF name = "s" THEN [t EXCEPT !.peer = 1, !.opens = @ + 1]
    ELSE [t EXCEPT !.err = TRUE]
TargetStart(t, name) ==
    IF t.peer > 0
    THEN [t EXCEPT !.peer = @ + 1, !.kids = IF t.peer = 1 THEN @ + 1 ELSE @]
    ELSE IF name = "s"
    THEN [t EXCEPT !.peer = 1, !.opens = @ + 1, !.kids = 0]
    ELSE [t EXCEPT !.err = TRUE]

\* The target's end, xmppstream.py lines 375-390: the element is popped
\* and, when only the root is left on the stack, given to the stanza
\* handler; it stays a child of the root, to which SubElement (line 368)
\* attached it.
TargetEnd(t) ==
    IF t.peer = 0 THEN [t EXCEPT !.err = TRUE]
    ELSE [t EXCEPT !.peer = @ - 1,
                   !.delivered = IF t.peer = 2 THEN @ + 1 ELSE @]

\* self.parser.feed(token), xml.py line 91: the XML parser calls the
\* target for the token (end and data, xmppstream.py lines 375-398, raise
\* outside the root); nothing follows a feed that raised.
ParserFeed(t, tok) ==
    IF t.err THEN t
    ELSE IF tok[1] # "<"
    THEN IF t.peer = 0 THEN [t EXCEPT !.err = TRUE] ELSE t
    ELSE IF tok[2] = "?" THEN t
    ELSE IF tok[2] = "/"
    THEN TargetEnd(t)
    ELSE TargetStart(t, tok[2])

RECURSIVE FeedAll(_, _)
FeedAll(t, toks) ==
    IF toks = <<>> THEN t ELSE FeedAll(ParserFeed(t, Head(toks)), Tail(toks))

Beyond == <<connVars, actVars, resVars, refused, got, hs, ioVars, app>>

\* A peer connects and will send one of the documents.
PeerConnects ==
    /\ xs.doc = <<>>
    /\ \E d \in Docs : xs' = [xs EXCEPT !.doc = d]
    /\ UNCHANGED Beyond

\* Parser.feed_tokens, xml.py lines 76-94, for the next k characters of
\* the peer: the chunk joins rb and the tokens rb holds are fed in order.
Received == LET n == Len(xs.chunks) IN
    IF n = 0 THEN 0
    ELSE LET RECURSIVE Sum(_)
             Sum(i) == IF i = 0 THEN 0 ELSE xs.chunks[i] + Sum(i - 1)
         IN Sum(n)
FeedChunk ==
    /\ xs.doc # <<>>
    /\ ~xs.err
    /\ \E k \in 1..(Len(xs.doc) - Received) :
         LET data == SubSeq(xs.doc, Received + 1, Received + k)
             tk == Tokenize(xs.rb \o data, <<>>)
             t == FeedAll(xs, tk.toks)
         IN xs' = [t EXCEPT !.rb = tk.rb, !.chunks = Append(@, k)]
    /\ UNCHANGED Beyond

NextXml == PeerConnects \/ FeedChunk

SpecXml == InitRes /\ [][NextXml]_vars

\* ------------------------------------------------------------ Parser.reset
\* Parser.feed_tokens step by step, with handlers that may call
\* Parser.reset while a token is being parsed.  Ghost fields of xs: fed
\* (the characters given to the XML parser), by (for each of them the
\* number of times the parser had been restarted), cuts (the length of fed
\* behind each token during which a reset was requested), seen (the
\* characters received when it was requested), took and passes (tokens of
\* the running pass and passes of the running call of feed_tokens).
TokDoc == OpenTag \o Child \o OpenTag

\* The end of the first token of buf, 0 if buf holds no complete token
\* (xml.py lines 100-110).
NextToken(buf) ==
    IF buf = <<>> THEN 0
    ELSE IF buf[1] = "<" THEN Find(buf, ">")
    ELSE IF Find(buf, "<") = 0 THEN 0 ELSE Find(buf, "<") - 1

\* The loop condition of tokenize, xml.py line 99.
TokenizingBlind(t) == t.rb # <<>>
Tokenizing(t) == t.rb # <<>> /\ ~t.stop

\* The more flag as tokenize leaves it, xml.py line 116.
MoreBuffered(t) == t.rb # <<>>
More(t) == t.rb # <<>> /\ t.stop

\* target.reset() of Parser.start (xml.py line 62): the element stack of
\* the target is cleared.
TargetReset(t) == [t EXCEPT !.peer = 0]

\* Parser.start, xml.py lines 59-65: a requested reset closes the parser,
\* resets the target and primes the parser for a new document.
ParserStartDropping(t) ==
    IF t.stop
    THEN [TargetReset(t) EXCEPT !.stop = FALSE, !.gen = @ + 1, !.rb = <<>>]
    ELSE t
ParserStart(t) ==
    IF t.stop
    THEN [TargetReset(t) EXCEPT !.stop = FALSE, !.gen = @ + 1]
    ELSE t

\* The peer's next k characters arrive: feed_tokens, xml.py lines 87-89.
FeedTokens ==
    /\ xs.pc = "idle"
    /\ ~xs.err
    /\ \E k \in 1..(Len(TokDoc) - xs.recv) :
         xs' = [xs EXCEPT !.rb = @ \o SubSeq(TokDoc, xs.recv + 1, xs.recv + k),
                          !.recv = @ + k,
                          !.more = TRUE,
                          !.pc = "tokenize",
                          !.took = 0,
                          !.passes = 1]
    /\ UNCHANGED Beyond

\* One turn of the for loop of feed_tokens (lines 90-91) around the
\* generator tokenize (lines 99-116): the token is yielded and fed to the
\* XML parser, whose target may call a handler that requests a reset; the
\* token leaves rb when the generator is resumed.  A feed that raises
\* leaves feed_tokens.  When the generator is exhausted it sets more.
TokenizeStep ==
    /\ xs.pc = "tokenize"
    /\ LET idx == NextToken(xs.rb) IN
       IF Tokenizing(xs) /\ idx > 0
       THEN LET tok == SubSeq(xs.rb, 1, idx)
                t == ParserFeed(xs, tok)
            IN IF t.err
               THEN xs' = [t EXCEPT !.pc = "idle"]
               ELSE \E r \in BOOLEAN :
                      /\ r => Len(xs.cuts) < MaxResets
                      /\ xs' = [t EXCEPT
                           !.fed = @ \o tok,
                           !.by = @ \o [i \in 1..idx |-> xs.gen],
                           !.rb = SubSeq(xs.rb, idx + 1, Len(xs.rb)),
                           !.took = @ + 1,
                           !.stop = r,
                           !.cuts = IF r THEN Append(@, Len(xs.fed) + idx) ELSE @,
                           !.seen = IF r THEN Append(@, xs.recv) ELSE @]
       ELSE xs' = [xs EXCEPT !.more = More(xs),
                             !.pc = "passed"]
    /\ UNCHANGED Beyond

\* feed_tokens, lines 92-94, behind the for loop: with more set the parser
\* is started again and the loop makes another pass; otherwise the call
\* returns.
PassEnd ==
    /\ xs.pc = "passed"
    /\ xs' = IF xs.more
             THEN [ParserStart(xs) EXCEPT !.pc = "tokenize", !.took = 0,
                                          !.passes = @ + 1]
             ELSE [xs EXCEPT !.pc = "idle"]
    /\ UNCHANGED Beyond

NextTok == FeedTokens \/ TokenizeStep \/ PassEnd

SpecTok == InitRes /\ [][NextTok]_vars

\* feed_tokens is straight-line code of one thread: once called it takes
\* its next step.
SpecTokFair == SpecTok /\ WF_vars(TokenizeStep) /\ WF_vars(PassEnd)

\* ------------------------------------------------------------ activation tables
\* One turn of the outer loop of partition_by_activation, plugin.py lines
\* 428-432, for plugin p: the inner for appends p to the group of each of
\* its events, and the else clause of that for, which Python runs whenever
\* the loop ends without break, appends p to default.
FilePlugin(t, p, events) ==
    [special |-> [e \in ActivationEvents |->
                    IF \E i \in 1..Len(events) : events[i] = e
                    THEN Append(t.special[e], p) ELSE t.special[e]],
     default |-> Append(t.default, p)]

\* partition_by_activation, plugin.py lines 426-433.
RECURSIVE Partition(_, _, _)
Partition(decl, p, t) ==
    IF p > Len(decl) THEN t
    ELSE Partition(decl, p + 1, FilePlugin(t, p, decl[p]))
partition_by_activation(decl) ==
    Partition(decl, 1, [special |-> NoTables.special, default |-> <<>>])

Apart == <<connVars, actVars, resVars, refused, got, hs, ioVars, xs>>

\* xmpp.Application is given its plugins.
Declare ==
    /\ app.decl = <<>>
    /\ \E d \in Declarations : app' = [app EXCEPT !.decl = d]
    /\ UNCHANGED Apart

\* CompiledPlugins.__init__, plugin.py lines 297-317.
Compile ==
    /\ app.decl # <<>>
    /\ ~app.compiled
    /\ LET t == partition_by_activation(app.decl)
       IN app' = [app EXCEPT !.special = t.special, !.default = t.default,
                             !.compiled = TRUE]
    /\ UNCHANGED Apart

\* An activation event is triggered: the one-shot listener that install
\* bound to it (lines 338-343) calls activate_group (351-359), which
\* makes an instance of each plugin of the group.
ActivateGroup ==
    /\ app.compiled
    /\ \E e \in ActivationEvents \ app.fired :
         /\ app.special[e] # <<>>
         /\ app' = [app EXCEPT !.fired = @ \cup {e},
                               !.made = @ \o app.special[e]]
    /\ UNCHANGED Apart

\* CompiledPlugins.activate, lines 345-349: the default group is activated.
ActivateDefault ==
    /\ app.compiled
    /\ app.bydefault = <<>>
    /\ app' = [app EXCEPT !.made = @ \o app.default,
                          !.bydefault = app.default]
    /\ UNCHANGED Apart

NextApp == Declare \/ Compile \/ ActivateGroup \/ ActivateDefault

SpecApp == InitRes /\ [][NextApp]_vars

\* ------------------------------------------------------------ properties
\* Methods that State.run calls as stanza handlers or event listeners.
HandlerKinds == {"h", "info_query", "handle_error", "begin", "challenge_loop",
                 "aborted", "bind", "start", "activate_group"}
HandlerBelow(i) == \E j \in 1..(i - 1) : stack[j].k \in HandlerKinds

\* Frame i has called a job that has not returned: State.run called it
\* directly, or State.flush took it from the queue.
Dispatching(i) ==
    /\ i < Depth
    /\ \/ stack[i].k = "run" /\ stack[i].pc = "call"
       \/ stack[i].k = "flush"

Count(seq, en) == Cardinality({i \in 1..Len(seq) : seq[i] = en})
Persistent(seq) == SelectSeq(seq, LAMBDA en : ~en.once)

\* C1: at any time at most one job dispatched by State.run (called by it or
\* drained from its queue) is executing; no job starts while another has not
\* finished.
C1_JobsNeverNest == Cardinality({i \in 1..Depth : Dispatching(i)}) <= 1

\* C2: a job that was queued while the lock was held is taken from the queue
\* only after the handler that was running has returned: no job is drained
\* while a stanza handler or listener is still on the call stack.
C2_QueuedJobsWaitForHandler ==
    \A i \in 1..Depth :
        (i < Depth /\ stack[i].k = "flush") => ~HandlerBelow(i)

Found(n) == {i \in 1..Len(iqlook[n]) : iqlook[n][i]}

\* C4: the callback of a request made with Core.iq is invoked at most once;
\* of the lookups of iq[id=n] made for received results only one, the first
\* after the request, finds the callback, every later one fails; the
\* callback has run exactly once when the connection is idle again after
\* the lookup that found it.
C4_IqCallbackOnce ==
    \A n \in 1..MaxIq :
        /\ cbcalls[n] <= 1
        /\ Cardinality(Found(n)) <= 1
        /\ cbcalls[n] = 1 => Found(n) # {}
        /\ (Idle /\ Found(n) # {}) => cbcalls[n] = 1
C4_Witness ==
    \E n \in 1..MaxIq :
        /\ Idle
        /\ \E i \in Found(n) : i < Len(iqlook[n]) /\ ~iqlook[n][i + 1]
        /\ cbcalls[n] = 1

\* C5: when info_query handles an iq of type 'error' whose id has a pending
\* callback, the one-shot registration iq[id=..] is consumed.
C5_ErrorIqDispatched ==
    [][(/\ At("info_query", "start")
        /\ authJID
        /\ Top.c.el.ty = "error"
        /\ IsStanza(IqIdent(Top.c.el.id)))
       => stanzas'[IqIdent(Top.c.el.id)] = NoEntry]_vars

\* C6: when trigger(E), called with the lock held (so that no listener runs
\* before it is over), has gone through the listeners, it has submitted in
\* order exactly those registered when it was called, and the list holds
\* exactly the persistent ones of them.
C6_TriggerInvokesAll ==
    (At("trigger", "done") /\ Top.x.lk) =>
        /\ Top.x.inv = Top.x.snap
        /\ lists[Top.x.ev][Top.x.g] = Persistent(Top.x.snap)

\* C7: when trigger(E), called with the lock free (so that each listener
\* runs inside it and may bind, unbind or trigger) and with persistent
\* listeners only, is over, every listener registered when it was called has
\* been invoked as often as it was registered: none has been skipped.
C7_ReentrantTriggerSkipsNone ==
    (/\ At("trigger", "done")
     /\ ~Top.x.lk
     /\ Top.x.snap = Persistent(Top.x.snap)) =>
        \A i \in 1..Len(Top.x.snap) :
            Count(Top.x.inv, Top.x.snap[i]) >= Count(Top.x.snap, Top.x.snap[i])

\* C8: when Core._reset returns, the stanza table holds the selectors of
\* the core, the event map the activation listeners of the special plugins,
\* the slot map and the job queue nothing; and at no time does the stanza
\* table or the event map hold an entry bound before the last reset.
C8_FreshAfterReset ==
    /\ At("_reset", "done") =>
          /\ stanzas = CoreStanzas(epoch)
          /\ CurLists = InstalledLists(epoch)
          /\ slots = {}
          /\ schedule = <<>>
    /\ \A sel \in Selectors : stanzas[sel] # NoEntry => stanzas[sel].ep = epoch
    /\ \A e \in Events : \A i \in 1..Len(Cur(e)) : Cur(e)[i].ep = epoch
C8_Witness ==
    /\ At("_reset", "done")
    /\ Top.x.n > 0
    /\ stream

\* C9: Core._reset never executes while a stanza handler or listener is
\* still on the call stack.
C9_ResetAfterHandlerReturns ==
    \A i \in 1..Depth : stack[i].k = "_reset" => ~HandlerBelow(i)

Reported == ~stream /\ \E i \in 1..Len(wire) : wire[i] = "error"

\* C11: the writes a handler queued before it called Core.error are not
\* lost: a write job pending when error() starts on a live connection is
\* still pending, or the wire has grown, after that step.
C11_PendingWritesSurviveError ==
    [][(At("error", "start") /\ stream) =>
          \A i \in 1..Len(schedule) :
              schedule[i].k = "write" =>
                  \/ \E j \in 1..Len(schedule') : schedule'[j] = schedule[i]
                  \/ Len(wire') > Len(wire)]_vars

\* C12: once Core.error has reported a stream error, a call of Core.write,
\* open_stream or close_stream appends nothing to the wire, changes no state
\* of the core or the State and does not raise.
C12_NoOpAfterError ==
    [][(/\ Reported
        /\ \/ At("write", "start")
           \/ At("open_stream", "start")
           \/ At("close_stream", "start"))
       => /\ exc' = "none"
          /\ wire' = wire
          /\ root' = root
          /\ UNCHANGED <<schedule, lists, gen, stanzas, slots>>]_vars
\* C13: after Core.close was called on a connection whose outbound stream
\* was open, the connection is torn down once the queued jobs have run:
\* when the reactor is idle again, and the socket has reported no error, the
\* stream reference is null.
C13_CloseTearsDown == (Idle /\ closing /\ nfail = 0) => ~stream

\* C14: once the peer's closing tag has been handled with the outbound
\* stream open, the step in which the 5-second timer fires leaves the socket
\* closed, whether or not the write buffer has drained.
C14_TimerClosesSocket ==
    [][(Idle /\ timer /\ ~timer') => ~socket']_vars

\* C15: once the socket is closed (the peer closed it, or it reported an
\* error) and the reactor is idle, the Core has been torn down: its stream
\* reference is null and its State holds no handler, listener or job.
C15_SocketCloseTearsDown ==
    (Idle /\ ~socket /\ ~handshake) =>
        /\ ~stream
        /\ stanzas = EmptyStanzas
        /\ schedule = <<>>

\* C16: on a server with a certificate and an auth provider, a features
\* element that offers starttls offers nothing else, mechanisms are offered
\* only once the connection is secured, and bind and session only once the
\* peer is authorized.
C16_FeaturesOneStepAtATime ==
    [][\A t \in BOOLEAN, m \in BOOLEAN, b \in BOOLEAN :
          (Len(wire') > Len(wire) /\ wire'[Len(wire')] = Offer(t, m, b)) =>
              /\ t => (~m /\ ~b)
              /\ m => secured = "True"
              /\ b => authJID]_vars

\* C17: the step that authorizes the peer (authJID is set) or secures the
\* connection leaves the TLS feature inactive, so that starttls is not
\* offered from then on.
C17_NoTlsOnceAuthorized ==
    [][(\/ authJID' /\ ~authJID
        \/ secured' = "True" /\ secured # "True") => ~TlsActive']_vars

\* C18: on a connection that is not secured, SASL.begin given an <auth/>
\* whose mechanism is not a secure one (PLAIN, or a name the server does not
\* know) leaves authJID as it was, queues the <failure/> answer and goes on
\* to close; it never goes on to success or to a challenge.
C18_InsecureMechanismRefused ==
    [][(/\ At("begin", "start")
        /\ secured # "True"
        /\ ~Secure(Top.c.el.child))
       => /\ authJID' = authJID
          /\ schedule' = Append(schedule, WriteJob("failure"))
          /\ stanzas' = stanzas
          /\ At("begin", "close")']_vars

\* An <auth mechanism='PLAIN'/> has been refused on an unsecured connection.
C18_Witness ==
    /\ At("begin", "close")
    /\ Top.c.el.child = "PLAIN"
    /\ Top.c.el.r = "success"
    /\ secured = "None"
    /\ ~authJID

\* Core._reset called by SASL.success is running.
InSaslReset ==
    /\ Depth >= 2
    /\ Top.k = "_reset"
    /\ stack[Depth - 1].k \in {"begin", "challenge_loop"}
    /\ stack[Depth - 1].pc = "done"
Successes == {i \in 1..Len(wire) : wire[i] = "success"}

\* C19: <success/> is written at most once; when the reset called by
\* SASL.success is about to clear the State (and the socket has reported no
\* error), <success/> is on the wire and authJID is set; and every features
\* element written after <success/> is the authorized one: bind and session,
\* no mechanisms.
C19_SuccessBeforeReset ==
    /\ Cardinality(Successes) <= 1
    /\ (InSaslReset /\ At("_reset", "clear") /\ nfail = 0) =>
           (Successes # {} /\ authJID)
    /\ \A i \in Successes : \A j \in (i + 1)..Len(wire) :
           wire[j] \in Offers => wire[j] \in {Offer(t, FALSE, TRUE) : t \in BOOLEAN}

\* After <success/> the peer has restarted the stream and got its features.
C19_Witness ==
    \E i \in Successes : \E j \in (i + 1)..Len(wire) : wire[j] \in Offers

\* Session.start has answered the peer's session request on this connection:
\* the point at which the session is established.
SessionEstablished == \E i \in 1..Len(wire) : wire[i] = "session"

\* C20: the default plugins are in their slots only on a connection whose
\* session has been established; never while resource binding and session
\* establishment are still to come.
C20_DefaultPluginsAfterSession == "default" \in slots => SessionEstablished

\* The default plugin's listeners that trigger frame f has invoked.
DefaultInvoked(f) == {j \in 1..Len(f.x.inv) : f.x.inv[j].c.k = "d"}

\* C21: however often the default plugins have been activated, one firing of
\* an event invokes the default plugin's listener at most once.
C21_ActivateIdempotent ==
    \A i \in 1..Depth :
        stack[i].k = "trigger" => Cardinality(DefaultInvoked(stack[i])) <= 1

\* C22: for every bare JID b, routes[b] is exactly the set of full JIDs
\* with bare part b that have an entry in bound (an entry names one
\* session), so a session that expired is in neither table.
C22_RoutesMatchBound ==
    \A b \in Bares :
        routes[Jid(b, "")] = {j \in FullJids : j.bare = b /\ bound[j] # 0}

\* C23: once Bind.bind has met a conflict and the connection has come to
\* rest, the client has been sent the iq error that carries the conflict
\* condition, the stream is still open, and the owner keeps its binding.
C23_ConflictAnswered ==
    refused /\ Idle =>
        /\ \E i \in 1..Len(wire) : wire[i] = "conflict"
        /\ stream
        /\ bound[Jid("a@h", "r1")] = Owner

\* C24: a call of Plugin.send to a bare JID hands the element to each
\* session once for every full JID of that account the session holds, and
\* to no other session: k deliveries for k bound resources.
C24_SendReachesEveryResource ==
    got.m = "handle" =>
        \A s \in Sessions :
            got.n[s] = Cardinality({j \in FullJids :
                                      j.bare = got.to.bare /\ bound[j] = s})

\* C25: on an authorized session, an element that has been dispatched to
\* the stanza handlers carries the session's authJID as its from attribute.
C25_FromIsAuthJID ==
    hs.out = "dispatched" /\ hs.auth # NoJid =>
        /\ hs.fwd = hs.auth
        /\ hs.from \in {NoJid, hs.auth}

\* An element without from has been stamped and dispatched on an
\* authorized session.
C25_Witness ==
    hs.out = "dispatched" /\ hs.auth # NoJid /\ hs.from = NoJid

\* C26: the bytes the socket has taken, followed by the bytes still in the
\* write buffer, are the bytes given to write, in the order of the calls:
\* what was sent is a prefix of it, nothing is lost and nothing sent twice.
C26_SentInOrder ==
    net.sent \o rs.wb = net.written

\* Part of what two or more writes gave has been sent and the rest waits.
C26_Witness ==
    net.nw >= 2 /\ net.sent # <<>> /\ rs.wb # <<>>

\* C27: the callback given to a write is called at most once, only when
\* every byte up to the end of that write has been sent, and it has been
\* called once the buffer of the open stream is empty again, whatever
\* writes were made in between.
C27_DoneOnceAfterDrain ==
    \A n \in net.cbs :
        /\ net.calls[n] <= 1
        /\ net.calls[n] = 1 => Len(net.sent) >= net.ends[n]
        /\ rs.socket = "open" /\ rs.wb = <<>> => net.calls[n] = 1

C30_InterestMatchesState ==
    rs.socket = "open" => rs.state = Interest(rs)

\* The characters of the document up to the ">" that ends <stream:stream>.
TagEnd(d) ==
    CHOOSE i \in 1..Len(d) :
        /\ d[i] = ">"
        /\ \E j \in 1..(i - 1) :
              /\ d[j] = "<" /\ d[j + 1] = "s"
              /\ \A m \in (j + 1)..(i - 1) : d[m] \notin {"<", ">"}

\* C29: however the opening tag is cut into chunks, ReceivedStreamOpen has
\* been triggered exactly once when the chunk that completes the tag has
\* been fed, and not at all before.
C29_OpenOncePerSplit ==
    xs.doc # <<>> =>
        xs.opens = IF Received >= TagEnd(xs.doc) THEN 1 ELSE 0

\* The tag arrived in three or more chunks and the event has fired.
C29_Witness ==
    /\ xs.doc # <<>>
    /\ xs.opens = 1
    /\ Len(xs.chunks) >= 3
    /\ Received <= TagEnd(xs.doc)

\* C31: a reset requested while a token is parsed is noticed before the next
\* token: every character fed to the XML parser was fed after exactly as
\* many restarts as resets had been requested during the tokens in front of
\* it, no token is fed while a reset is pending, and the pending reset is
\* cleared only by restarting the parser with the target's element stack
\* emptied and nothing fed in that step.
C31_ResetCutsStream ==
    /\ [](\A i \in 1..Len(xs.fed) :
            xs.by[i] = Cardinality({c \in 1..Len(xs.cuts) : xs.cuts[c] < i}))
    /\ [][xs'.fed # xs.fed => ~xs.stop]_vars
    /\ [][(xs.stop /\ ~xs'.stop) =>
            (xs'.gen = xs.gen + 1 /\ xs'.peer = 0 /\ xs'.fed = xs.fed)]_vars
C31_Witness ==
    /\ Len(xs.cuts) >= 1
    /\ xs.seen[1] > xs.cuts[1]
    /\ Len(xs.fed) > xs.cuts[1]
    /\ xs.by[Len(xs.fed)] = 1

\* C35: in token mode, as long as no feed has raised, the characters fed to
\* the XML parser followed by the buffer rb are exactly the characters
\* received, and when feed_tokens has returned rb holds no complete token:
\* what was buffered behind a token that requested a reset has been fed to
\* the restarted parser.
C35_NoByteLost ==
    ~xs.err =>
        /\ xs.fed \o xs.rb = SubSeq(TokDoc, 1, xs.recv)
        /\ xs.pc = "idle" => NextToken(xs.rb) = 0
C35_Witness ==
    /\ ~xs.err
    /\ xs.pc = "idle"
    /\ Len(xs.cuts) >= 1
    /\ xs.seen[1] > xs.cuts[1]
    /\ Len(xs.fed) >= xs.seen[1]
    /\ xs.gen = 1

\* C40 as stated: a pass of the loop of feed_tokens that consumed no token
\* is the last one.
C40_EachPassConsumes ==
    (xs.pc = "passed" /\ xs.took = 0) => ~xs.more

\* C40: every call of feed_tokens returns, and every pass of its loop but
\* the first consumes at least one token or is the last one; the first pass
\* of a call consumes nothing and restarts the parser when a reset is
\* pending from the call before.
C40_FeedTokensReturns ==
    /\ (xs.pc # "idle") ~> (xs.pc = "idle")
    /\ []((xs.pc = "passed" /\ xs.took = 0 /\ xs.more) => xs.passes = 1)
C40_Witness ==
    /\ xs.pc = "idle"
    /\ xs.passes = 2
    /\ xs.gen = 1
    /\ Len(xs.fed) > xs.cuts[1]
    /\ xs.seen[1] = xs.cuts[1]

\* A job that carries a received element: a stanza handler called by
\* trigger_stanza.
Carries(c) == "el" \in DOMAIN c

FedLen == Received - Len(xs.rb)

\* C33: the first-level child of the peer's document has been delivered to
\* the stanza handler exactly once as soon as its end tag has been fed, and
\* not before; whenever only the root is open the root has no children, and
\* it never has more than one.
C33_RootKeepsNoChildren ==
    (xs.doc # <<>> /\ ~xs.err) =>
        /\ xs.delivered = (IF FedLen = Len(xs.doc) THEN 1 ELSE 0)
        /\ xs.kids <= 1
        /\ xs.peer = 1 => xs.kids = 0

Holds(seq, p) == \E i \in 1..Len(seq) : seq[i] = p

\* C34: once the tables are compiled, a plugin that declares an activation
\* event is in the special table and neither in the default table nor among
\* the plugins default activation made, and a plugin that declares none is
\* in the default table only.
C34_TablesPartition ==
    app.compiled =>
        \A p \in 1..Len(app.decl) :
            IF app.decl[p] # <<>>
            THEN /\ \E e \in ActivationEvents : Holds(app.special[e], p)
                 /\ ~Holds(app.default, p)
                 /\ ~Holds(app.bydefault, p)
            ELSE /\ Holds(app.default, p)
                 /\ \A e \in ActivationEvents : ~Holds(app.special[e], p)

C37_ClosedSessionUnrouted ==
    ~stream => \A j \in Jids : \A rt \in Routes(Tables, j) : rt[2] # Self

\* C38: no chunk is received while the stream has no reader, so that _read
\* never calls a reader that shutdown() has cleared; in particular not
\* while the stream waits for its write buffer to drain before closing.
C38_ClearedReaderNeverCalled == ~net.uncallable

\* C39: the negotiation flags never go back, whatever resets the stream
\* undergoes: no step takes secured away from True, no step unsets authJID,
\* and once the peer is authorized no <auth/> or <response/> is accepted:
\* SASL.begin and the challenge loop are not entered, and whenever control
\* is back at the reactor neither stanza has a handler.
C39_NegotiationMonotonic ==
    /\ [][/\ secured = "True" => secured' = "True"
          /\ authJID => authJID']_vars
    /\ [](authJID => ~(At("begin", "start") \/ At("challenge_loop", "start")))
    /\ []((Idle /\ authJID) =>
              ~IsStanza(Sel("auth")) /\ ~IsStanza(Sel("response")))
C39_Witness ==
    /\ Idle
    /\ authJID
    /\ epoch >= 1
    /\ popen = "open"
    /\ \E i \in 1..Len(wire) : wire[i] = "success"

====
